---------------------------- MODULE Spec2Model ----------------------------
(***************************************************************************)
(* Model of the TUPA scraping pipeline (packages/scraper):                 *)
(*   - the persistence layer  (database_integration.py, SpecBatch),        *)
(*   - the orchestrator       (scraping_orchestrator.py, SpecRun),         *)
(*   - the extractors' field computations (tupa_scraper.py,                *)
(*     specialized_scraper.py, pdf_processor.py, SpecExtract).             *)
(* The parts have disjoint state; each specification drives one part and   *)
(* leaves the variables of the other parts at their initial values.        *)
(***************************************************************************)
EXTENDS Naturals, Integers, Sequences, FiniteSets, TLC

VARIABLES
    \* ---- persistence layer (DatabaseIntegration) ----
    db_entities,      \* committed Entity rows, in insertion order (id = position)
    db_procedures,    \* committed Procedure rows, in insertion order
    sess_entities,    \* Entity rows added to the open session, not yet committed
    sess_procedures,  \* Procedure rows added to the open session, not yet committed
    procedures_data,  \* the argument of the running save_procedures_batch call
    idx,              \* position of the for loop of save_procedures_batch
    stats,            \* the stats dict of save_procedures_batch
    batch_pc,         \* "idle" | "loop" | "returned" | "raised"
    batch_hist,       \* history of the running call (commits, rollbacks, last record, ...)
    \* ---- orchestrator (ScrapingOrchestrator.run_full_process) ----
    run_pc,           \* the phase run_full_process is in
    run_args,         \* [save_to_db, export_files]
    basic_procedures,        \* result of TupaScraper.run_full_scraping
    specialized_procedures,  \* result of SpecializedScraper.scrape_specialized_urls
    pdf_procedures,          \* result of PDFProcessor.process_all_documents
    all_procedures,          \* the merged list
    results,          \* the results dict of run_full_process
    files,            \* files written to the working directory
    db_conn,          \* "none" | "open" | "closed": the engine of self.db
    run_hist,         \* history of the run (phases entered, where it failed, ...)
    \* ---- extractors (field computations of one page / section / row) ----
    doc,              \* the source being read: its heading words and its text
    produced,         \* the ProcedureData records the last extractor call returned
    \* ---- synthetic tupa_code generation, over processes ----
    code_src,         \* the string a synthetic code is derived from (URL, file path, row name)
    str_hash,         \* hash(code_src) in the running interpreter process
    process,          \* number of the running interpreter process
    codes,            \* the code derived from code_src in each process so far
    \* ---- difficulty assessment ----
    assessed,         \* the (requirements, cost) a difficulty function is given
    difficulty,       \* the function applied and the level it returned
    \* ---- web extractors: the URL loops ----
    web_pc,           \* "idle" | "specialized" | "basic" | "done"
    urls,             \* the URLs of the running loop (by host)
    url_i,            \* position of the loop
    web_procedures,   \* the procedures list of the running scraper
    web_calls,        \* history: one entry per URL given to an extractor
    web_log,          \* history: the HTTP requests and sleeps, in order
    page_links,       \* the valid links of the search page, in page order
    \* ---- document extractor (PDFProcessor.process_all_documents) ----
    docs_pc,          \* "idle" | "loop" | "returned"
    doc_files,        \* the files found by scan_pdf_files
    file_i,           \* position of the loop over the files
    doc_procedures,   \* all_procedures of process_all_documents
    docs_hist,        \* history: per processed file, what it yielded
    \* ---- entry points and interruption of a run ----
    interrupt,        \* where a user interrupt reached run_full_process, and what it left
    exit,             \* the entry point that ended and the exit code of the process
    \* ---- requirements lists of the extractors ----
    req_source,       \* the list items of the page or section given to an extractor
    req_record,       \* the extractor applied and the requirements of its record
    \* ---- full-text segmentation (PDFProcessor._extract_procedures_from_text) ----
    seg_text,         \* the lines of the text
    seg_out,          \* the sections found and the procedures returned
    \* ---- natural keys of the records of different sources ----
    key_pc,           \* "idle" | "merged" | "committed"
    key_sources,      \* the sources read by one run, in merge order
    key_records,      \* the merged records, one per source
    key_rows          \* the Procedure rows of the store (empty before the run)

batch_vars == <<db_entities, db_procedures, sess_entities, sess_procedures,
                procedures_data, idx, stats, batch_pc, batch_hist>>

run_vars == <<run_pc, run_args, basic_procedures, specialized_procedures,
              pdf_procedures, all_procedures, results, files, db_conn, run_hist>>

ext_vars == <<doc, produced>>

code_vars == <<code_src, str_hash, process, codes>>

diff_vars == <<assessed, difficulty>>

web_vars == <<web_pc, urls, url_i, web_procedures, web_calls, web_log, page_links>>

docs_vars == <<docs_pc, doc_files, file_i, doc_procedures, docs_hist>>

main_vars == <<interrupt, exit>>

req_vars == <<req_source, req_record>>

seg_vars == <<seg_text, seg_out>>

key_vars == <<key_pc, key_sources, key_records, key_rows>>

late_vars == <<req_vars, seg_vars, key_vars>>

more_vars == <<code_vars, diff_vars, web_vars, docs_vars, main_vars, late_vars>>

early_vars == <<batch_vars, run_vars, ext_vars, code_vars, diff_vars, web_vars, docs_vars,
                main_vars>>

vars == <<batch_vars, run_vars, ext_vars, more_vars>>

-----------------------------------------------------------------------------
(* Bounds of the model *)

\* longest argument list given to save_procedures_batch
MaxBatch == 2

\* longest list of scraped records one extractor phase returns
MaxOut == 2

\* longest text (in tokens) of a page, section or table cell
MaxTokens == 3

\* number of interpreter processes (runs of the pipeline) that derive a code
MaxProcesses == 2

\* longest requirements list given to a difficulty function
MaxRequirements == 8

\* most list items of a page or section given to a requirements extractor
MaxItems == 11

\* longest text of freely chosen lines given to the segmentation
MaxLines == 3

\* most repetitions of a block of lines in a long text
MaxRepeat == 21

\* longest list of URLs (target URLs, links of the search page) of a loop
MaxUrls == 2

\* largest number of files in the documents directory
MaxFiles == 2

\* largest number of sources whose records one run merges
MaxSources == 2

-----------------------------------------------------------------------------
(* Persistence layer: database_integration.py *)

\* Canonical records as far as the persistence layer reads them: the entity
\* (name and code), the natural code and a payload field (name).
ProcRecords ==
    { [entity_name |-> "SUNAT",  entity_code |-> "SUNAT",  tupa_code |-> "SUNAT-001", name |-> "Inscripcion al RUC"],
      [entity_name |-> "SUNAT",  entity_code |-> "SUNAT",  tupa_code |-> "SUNAT-001", name |-> "Inscripcion al RUC (v2)"],
      [entity_name |-> "SUNAT",  entity_code |-> "SUNAT",  tupa_code |-> "",          name |-> "Procedimiento SUNAT"],
      [entity_name |-> "RENIEC", entity_code |-> "RENIEC", tupa_code |-> "SUNAT-001", name |-> "Duplicado de DNI"] }

RECURSIVE SeqsUpTo(_, _)
SeqsUpTo(S, n) ==
    IF n = 0 THEN { <<>> }
    ELSE LET shorter == SeqsUpTo(S, n - 1)
         IN  shorter \cup { Append(s, x) : s \in { t \in shorter : Len(t) = n - 1 }, x \in S }

BatchInputs == SeqsUpTo(ProcRecords, MaxBatch)

\* Points of one loop iteration at which an awaited session call may raise.
Faults == { "none", "entity_lookup", "procedure_lookup" }

ZeroStats(n) == [total |-> n, saved |-> 0, skipped |-> 0, errors |-> 0]

NoRow == [entity_id |-> 0, tupa_code |-> "", name |-> ""]

NoRecord == [fault |-> "none", existed |-> FALSE, inserted |-> FALSE, counter |-> "none",
             returned |-> "none", row |-> NoRow, before |-> <<>>]

ZeroHist == [commits |-> 0, rollbacks |-> 0, faults |-> 0,
             last |-> NoRecord, rerun |-> FALSE,
             prev |-> [saved |-> 0, faults |-> 0, rows |-> 0],
             db0_entities |-> <<>>, db0_procedures |-> <<>>]

\* What a select issued through the session sees: the committed rows and the
\* rows the session holds (sessionmaker keeps autoflush on, so pending rows
\* are flushed before the query runs).
EntityView_NoFlush == db_entities

EntityView == db_entities \o sess_entities

ProcedureView_NoAutoflush == db_procedures

ProcedureView == db_procedures \o sess_procedures

MatchingEntities(code) ==
    { i \in DOMAIN EntityView : EntityView[i].code = code }

MatchingProcedures(tupa_code, entity_id) ==
    { i \in DOMAIN ProcedureView :
        /\ ProcedureView[i].tupa_code = tupa_code
        /\ ProcedureView[i].entity_id = entity_id }

\* create_or_get_entity: select by code; scalar_one_or_none raises on several
\* rows; a missing entity is added and flushed; any exception is re-raised.
CreateOrGetEntity(rec, fault) ==
    LET m == MatchingEntities(rec.entity_code) IN
    IF fault = "entity_lookup" \/ Cardinality(m) > 1
    THEN [raised |-> TRUE, id |-> 0, added |-> <<>>]
    ELSE IF m = {}
    THEN [raised |-> FALSE, id |-> Len(EntityView) + 1,
          added |-> << [code |-> rec.entity_code, name |-> rec.entity_name] >>]
    ELSE [raised |-> FALSE, id |-> CHOOSE i \in m : TRUE, added |-> <<>>]

\* What save_procedure does to the row it found: an update on conflict
\* would assign the fields of the record to it.
ExistingRow_Updated(row, procedure_data) == [row EXCEPT !.name = procedure_data.name]

\* What save_procedure does to the row it found: `return existing_procedure`,
\* with no assignment to any of its attributes.
ExistingRow(row, procedure_data) == row

\* save_procedure: select by (tupa_code, entity_id); an existing row is
\* returned as it is, otherwise a new row is added to the session; any
\* exception is logged and None is returned. `found` is the row the select
\* gave and `row` the row returned.
SaveProcedure(rec, entity_id, fault) ==
    LET m == MatchingProcedures(rec.tupa_code, entity_id) IN
    IF fault = "procedure_lookup" \/ Cardinality(m) > 1
    THEN [returned |-> "None", added |-> <<>>, found |-> NoRow, row |-> NoRow]
    ELSE IF m # {}
    THEN LET found == ProcedureView[CHOOSE i \in m : TRUE]
         IN  [returned |-> "existing", added |-> <<>>,
              found |-> found, row |-> ExistingRow(found, rec)]
    ELSE LET procedure == [entity_id |-> entity_id, tupa_code |-> rec.tupa_code,
                           name |-> rec.name]
         IN  [returned |-> "new", added |-> << procedure >>,
              found |-> NoRow, row |-> procedure]

\* The rows of the session once save_procedure has returned: the row it found
\* is the object it returns, every other row is not touched.
AfterSave(rows, proc) ==
    [i \in DOMAIN rows |-> IF rows[i] = proc.found THEN proc.row ELSE rows[i]]

\* `if procedure:` of save_procedures_batch: any returned row is truthy.
CounterFor(returned) == IF returned = "None" THEN "skipped" ELSE "saved"

Bump_SavedOnly(s, counter) == IF counter = "saved" THEN [s EXCEPT !.saved = @ + 1] ELSE s

\* stats['saved'] += 1, stats['skipped'] += 1, stats['errors'] += 1
Bump(s, counter) == [s EXCEPT ![counter] = @ + 1]

\* The natural key of the record is visible in the session before the
\* iteration (committed, or added earlier in the same batch).
KeyVisible(rec) ==
    \E i \in DOMAIN ProcedureView, e \in DOMAIN EntityView :
        /\ EntityView[e].code = rec.entity_code
        /\ ProcedureView[i].entity_id = e
        /\ ProcedureView[i].tupa_code = rec.tupa_code

\* save_procedures_batch, entry: stats, the connection and the session.
\* Opening the connection or the session may raise before the try block.
BatchStart ==
    /\ batch_pc = "idle"
    /\ \E input \in BatchInputs, opens \in BOOLEAN :
          /\ procedures_data' = input
          /\ stats' = ZeroStats(Len(input))
          /\ batch_pc' = IF opens THEN "loop" ELSE "raised"
    /\ idx' = 1
    /\ sess_entities' = <<>>
    /\ sess_procedures' = <<>>
    /\ batch_hist' = [ZeroHist EXCEPT !.db0_entities = db_entities,
                                      !.db0_procedures = db_procedures]
    /\ UNCHANGED <<db_entities, db_procedures>>
    /\ UNCHANGED <<run_vars, ext_vars, more_vars>>

\* The same argument list saved again after a normal return (a second run of
\* the pipeline over the same sources).
BatchRerun ==
    /\ batch_pc = "returned"
    /\ ~batch_hist.rerun
    /\ stats' = ZeroStats(Len(procedures_data))
    /\ idx' = 1
    /\ sess_entities' = <<>>
    /\ sess_procedures' = <<>>
    /\ batch_pc' = "loop"
    /\ batch_hist' = [ZeroHist EXCEPT
                        !.rerun = TRUE,
                        !.prev = [saved |-> stats.saved, faults |-> batch_hist.faults,
                                  rows |-> Len(db_procedures)],
                        !.db0_entities = db_entities,
                        !.db0_procedures = db_procedures]
    /\ UNCHANGED <<db_entities, db_procedures, procedures_data>>
    /\ UNCHANGED <<run_vars, ext_vars, more_vars>>

\* One iteration of the for loop of save_procedures_batch.
ProcessRecord(fault) ==
    /\ batch_pc = "loop"
    /\ idx <= Len(procedures_data)
    /\ LET rec == procedures_data[idx]
           ent == CreateOrGetEntity(rec, fault)
           existed == KeyVisible(rec)
       IN  IF ent.raised
           THEN /\ stats' = Bump(stats, "errors")
                /\ UNCHANGED <<sess_entities, sess_procedures, db_procedures>>
                /\ batch_hist' = [batch_hist EXCEPT
                      !.faults = @ + 1,
                      !.last = [NoRecord EXCEPT
                                !.fault = fault, !.existed = existed,
                                !.counter = "errors"]]
           ELSE LET proc == SaveProcedure(rec, ent.id, fault) IN
                /\ sess_entities' = sess_entities \o ent.added
                /\ db_procedures' = AfterSave(db_procedures, proc)
                /\ sess_procedures' = AfterSave(sess_procedures, proc) \o proc.added
                /\ stats' = Bump(stats, CounterFor(proc.returned))
                /\ batch_hist' = [batch_hist EXCEPT
                      !.faults = IF fault = "none" THEN @ ELSE @ + 1,
                      !.last = [fault |-> fault, existed |-> existed,
                                inserted |-> proc.added # <<>>,
                                counter |-> CounterFor(proc.returned),
                                returned |-> proc.returned,
                                row |-> IF proc.returned = "existing"
                                        THEN proc.row ELSE NoRow,
                                before |-> IF proc.returned = "existing"
                                           THEN db_procedures \o sess_procedures
                                           ELSE <<>>]]
    /\ idx' = idx + 1
    /\ UNCHANGED <<db_entities, procedures_data, batch_pc>>
    /\ UNCHANGED <<run_vars, ext_vars, more_vars>>

\* What stays persisted after session.rollback(): the committed rows only.
RolledBack_KeepsPending(committed, pending) == committed \o pending

RolledBack(committed, pending) == committed

\* After the loop: session.commit(); when it raises, session.rollback() and
\* the exception is re-raised.
Commit(ok) ==
    /\ batch_pc = "loop"
    /\ idx > Len(procedures_data)
    /\ IF ok
       THEN /\ db_entities' = db_entities \o sess_entities
            /\ db_procedures' = db_procedures \o sess_procedures
            /\ batch_pc' = "returned"
            /\ batch_hist' = [batch_hist EXCEPT !.commits = @ + 1]
       ELSE /\ db_entities' = RolledBack(db_entities, sess_entities)
            /\ db_procedures' = RolledBack(db_procedures, sess_procedures)
            /\ batch_pc' = "raised"
            /\ batch_hist' = [batch_hist EXCEPT !.rollbacks = @ + 1]
    /\ sess_entities' = <<>>
    /\ sess_procedures' = <<>>
    /\ UNCHANGED <<procedures_data, idx, stats>>
    /\ UNCHANGED <<run_vars, ext_vars, more_vars>>

\* The call is over: the caller has the stats (or the exception) and the
\* session of the call is closed.
BatchExit ==
    /\ batch_pc \in {"returned", "raised"}
    /\ batch_pc' = "idle"
    /\ procedures_data' = <<>>
    /\ idx' = 1
    /\ stats' = ZeroStats(0)
    /\ batch_hist' = ZeroHist
    /\ UNCHANGED <<db_entities, db_procedures, sess_entities, sess_procedures>>
    /\ UNCHANGED <<run_vars, ext_vars, more_vars>>

InitBatch ==
    /\ db_entities = <<>>
    /\ db_procedures = <<>>
    /\ sess_entities = <<>>
    /\ sess_procedures = <<>>
    /\ procedures_data = <<>>
    /\ idx = 1
    /\ stats = ZeroStats(0)
    /\ batch_pc = "idle"
    /\ batch_hist = ZeroHist

NextBatch ==
    \/ BatchStart
    \/ BatchRerun
    \/ \E fault \in Faults : ProcessRecord(fault)
    \/ \E ok \in BOOLEAN : Commit(ok)
    \/ BatchExit

-----------------------------------------------------------------------------
(* Orchestrator: scraping_orchestrator.py, run_full_process *)

\* Records are named by their code here. The nine curated records that
\* scrape_specific_entities always returns, in its order.
CuratedProcedures ==
    << "SUNAT-001", "SUNAT-002", "SUNAT-003",
       "RENIEC-001", "RENIEC-002", "RENIEC-003",
       "SUNARP-001", "SUNARP-002", "SUNARP-003" >>

\* Records the network and document extractors may produce; a page may
\* carry the code of a curated record.
ScrapedRecords == { "SUNAT-001", "GOB-250RENOVAR" }

ScrapedLists == SeqsUpTo(ScrapedRecords, MaxOut)

ExportFiles ==
    << "tupa_procedures_complete.json", "tupa_procedures_analysis.csv",
       "tupa_procedures_frontend.json" >>

ZeroResults == [procedures_scraped |-> 0, procedures_saved |-> 0, errors |-> 0,
                duration_set |-> FALSE]

ZeroRunHist == [trace |-> <<>>, failed_in |-> "none", merged |-> FALSE,
                export_called |-> FALSE, report_called |-> FALSE]

Enter(phase) == [run_hist EXCEPT !.trace = Append(@, phase)]

CloseConnection_Keep(conn) == conn

\* close_connection: dispose the engine when there is one.
CloseConnection(conn) == IF conn = "open" THEN "closed" ELSE conn

\* The except and finally clauses of run_full_process after an exception in
\* `phase`: errors += 1, the connection is closed, the duration is stored
\* and the exception is re-raised.
RaiseFrom(phase, conn) ==
    /\ run_pc' = "failed"
    /\ results' = [results EXCEPT !.errors = @ + 1, !.duration_set = TRUE]
    /\ db_conn' = CloseConnection(conn)
    /\ run_hist' = [run_hist EXCEPT !.failed_in = phase]

\* The finally clause on a return.
Finally(res, conn) ==
    /\ results' = [res EXCEPT !.duration_set = TRUE]
    /\ db_conn' = CloseConnection(conn)

\* The phase that follows the merge of a non-empty list.
AfterMerging_ExportFirst(save_to_db, export_files) ==
    IF export_files THEN "exporting"
    ELSE IF save_to_db THEN "persisting"
    ELSE "reporting"

AfterMerging(save_to_db, export_files) ==
    IF save_to_db THEN "persisting"
    ELSE IF export_files THEN "exporting"
    ELSE "reporting"

AfterPersisting(export_files) ==
    IF export_files THEN "exporting" ELSE "reporting"

\* all_procedures = basic_procedures + specialized_procedures + pdf_procedures
RECURSIVE Dedup(_)
Dedup(s) ==
    IF s = <<>> THEN <<>>
    ELSE LET front == Dedup(SubSeq(s, 1, Len(s) - 1))
             x == s[Len(s)]
         IN  IF \E i \in DOMAIN front : front[i] = x THEN front ELSE Append(front, x)

MergeProcedures_Dedup(basic, specialized, pdf) == Dedup(basic \o specialized \o pdf)

MergeProcedures(basic, specialized, pdf) == basic \o specialized \o pdf

\* run_full_process is called: results is initialised, phase 1 begins.
StartRun(save_to_db, export_files) ==
    /\ run_pc = "idle"
    /\ run_args' = [save_to_db |-> save_to_db, export_files |-> export_files]
    /\ results' = ZeroResults
    /\ run_pc' = "scraping_basic"
    /\ run_hist' = Enter("scraping_basic")
    /\ UNCHANGED <<basic_procedures, specialized_procedures, pdf_procedures,
                   all_procedures, files, db_conn>>
    /\ UNCHANGED <<batch_vars, ext_vars, more_vars>>

\* Phase 1, TupaScraper.run_full_scraping: the curated records, then what
\* the gob.pe search gave (its failure is swallowed and gives nothing); the
\* list is never empty, so it is written to procedures_scraped.json/.csv.
\* setup_session or the file writes may raise.
ScrapeBasic(gob, ok) ==
    /\ run_pc = "scraping_basic"
    /\ IF ok
       THEN /\ basic_procedures' = CuratedProcedures \o gob
            /\ files' = files \cup {"procedures_scraped.json", "procedures_scraped.csv"}
            /\ run_pc' = "scraping_specialized"
            /\ run_hist' = Enter("scraping_specialized")
            /\ UNCHANGED <<results, db_conn>>
       ELSE /\ RaiseFrom("scraping_basic", db_conn)
            /\ UNCHANGED <<basic_procedures, files>>
    /\ UNCHANGED <<run_args, specialized_procedures, pdf_procedures, all_procedures>>
    /\ UNCHANGED <<batch_vars, ext_vars, more_vars>>

\* Phase 2, SpecializedScraper.scrape_specialized_urls: setup_session is
\* awaited outside any try and may raise; per-URL errors are swallowed.
ScrapeSpecialized(out, ok) ==
    /\ run_pc = "scraping_specialized"
    /\ IF ok
       THEN /\ specialized_procedures' = out
            /\ run_pc' = "scraping_pdf"
            /\ run_hist' = Enter("scraping_pdf")
            /\ UNCHANGED <<results, db_conn>>
       ELSE /\ RaiseFrom("scraping_specialized", db_conn)
            /\ UNCHANGED specialized_procedures
    /\ UNCHANGED <<run_args, basic_procedures, pdf_procedures, all_procedures, files>>
    /\ UNCHANGED <<batch_vars, ext_vars, more_vars>>

\* Phase 3, PDFProcessor.process_all_documents: scan_pdf_files lists the
\* directory outside any try and may raise; per-file errors are swallowed.
ProcessPdf(out, ok) ==
    /\ run_pc = "scraping_pdf"
    /\ IF ok
       THEN /\ pdf_procedures' = out
            /\ run_pc' = "merging"
            /\ run_hist' = Enter("merging")
            /\ UNCHANGED <<results, db_conn>>
       ELSE /\ RaiseFrom("scraping_pdf", db_conn)
            /\ UNCHANGED pdf_procedures
    /\ UNCHANGED <<run_args, basic_procedures, specialized_procedures, all_procedures, files>>
    /\ UNCHANGED <<batch_vars, ext_vars, more_vars>>

\* Step 4: the merge; an empty list returns at once (through finally).
Merge ==
    /\ run_pc = "merging"
    /\ LET merged == MergeProcedures(basic_procedures, specialized_procedures, pdf_procedures)
           res == [results EXCEPT !.procedures_scraped = Len(merged)]
       IN  /\ all_procedures' = merged
           /\ IF merged = <<>>
              THEN /\ run_pc' = "done"
                   /\ Finally(res, db_conn)
                   /\ run_hist' = [Enter("done") EXCEPT !.merged = TRUE]
              ELSE LET next == AfterMerging(run_args.save_to_db, run_args.export_files)
                   IN  /\ run_pc' = next
                       /\ results' = res
                       /\ run_hist' = [Enter(next) EXCEPT !.merged = TRUE]
                       /\ UNCHANGED db_conn
    /\ UNCHANGED <<run_args, basic_procedures, specialized_procedures, pdf_procedures, files>>
    /\ UNCHANGED <<batch_vars, ext_vars, more_vars>>

\* Step 6: setup_connection, then save_procedures_batch (here by its
\* outcome: it raises, or returns stats with saved + skipped + errors = total).
Persist(connects, batch_ok, skipped, errors) ==
    /\ run_pc = "persisting"
    /\ skipped + errors <= Len(all_procedures)
    /\ IF ~connects
       THEN RaiseFrom("persisting", db_conn)
       ELSE IF ~batch_ok
       THEN RaiseFrom("persisting", "open")
       ELSE LET next == AfterPersisting(run_args.export_files)
            IN  /\ results' = [results EXCEPT !.procedures_saved = Len(all_procedures) - skipped - errors,
                                              !.errors = @ + errors]
                /\ db_conn' = "open"
                /\ run_pc' = next
                /\ run_hist' = Enter(next)
    /\ UNCHANGED <<run_args, basic_procedures, specialized_procedures, pdf_procedures,
                   all_procedures, files>>
    /\ UNCHANGED <<batch_vars, ext_vars, more_vars>>

\* Step 7, _export_results: the three files in order; an exception is
\* logged inside _export_results and ends the export (written of 3 files).
Export(written) ==
    /\ run_pc = "exporting"
    /\ files' = files \cup { ExportFiles[i] : i \in 1..written }
    /\ run_pc' = "reporting"
    /\ run_hist' = [Enter("reporting") EXCEPT !.export_called = TRUE]
    /\ UNCHANGED <<run_args, basic_procedures, specialized_procedures, pdf_procedures,
                   all_procedures, results, db_conn>>
    /\ UNCHANGED <<batch_vars, ext_vars, more_vars>>

\* Step 8, _generate_final_report, then the finally clause and the return;
\* writing scraping_report.txt may raise.
Report(ok) ==
    /\ run_pc = "reporting"
    /\ IF ok
       THEN /\ files' = files \cup {"scraping_report.txt"}
            /\ run_pc' = "done"
            /\ Finally(results, db_conn)
            /\ run_hist' = [Enter("done") EXCEPT !.report_called = TRUE]
       ELSE /\ RaiseFrom("reporting", db_conn)
            /\ UNCHANGED files
    /\ UNCHANGED <<run_args, basic_procedures, specialized_procedures, pdf_procedures,
                   all_procedures>>
    /\ UNCHANGED <<batch_vars, ext_vars, more_vars>>

\* The phases in which run_full_process is waiting or working.
ActivePhases ==
    { "scraping_basic", "scraping_specialized", "scraping_pdf", "merging",
      "persisting", "exporting", "reporting" }

NoInterrupt == [in |-> "none", accumulated |-> 0, session_left_open |-> FALSE]

NotExited == [entry |-> "none", code |-> -1, db |-> "none", outcome |-> "none"]

\* The records the run holds in memory.
Accumulated ==
    IF run_hist.merged THEN Len(all_procedures)
    ELSE Len(basic_procedures) + Len(specialized_procedures) + Len(pdf_procedures)

\* A user interrupt (KeyboardInterrupt, or the CancelledError asyncio.run
\* delivers for it) reaches run_full_process in a phase. `except Exception`
\* does not catch it; the finally clause closes the database connection
\* and stores the duration; nothing is exported. The session of the
\* specialized scraper is closed only after its loop, so an interrupt in
\* that phase, once setup_session has run, leaves it open; the basic
\* scraper closes its session in a finally clause.
Interrupt(left_open, connected) ==
    /\ run_pc \in ActivePhases
    /\ left_open => run_pc = "scraping_specialized"
    /\ connected => run_pc = "persisting"
    /\ interrupt' = [in |-> run_pc, accumulated |-> Accumulated,
                     session_left_open |-> left_open]
    /\ run_pc' = "interrupted"
    /\ Finally(results, IF connected THEN "open" ELSE db_conn)
    /\ UNCHANGED <<run_args, basic_procedures, specialized_procedures, pdf_procedures,
                   all_procedures, files, run_hist>>
    /\ UNCHANGED exit
    /\ UNCHANGED <<batch_vars, ext_vars, code_vars, diff_vars, web_vars, docs_vars, late_vars>>

\* The exit codes of `scraper_cli.py scrape` after run_full_process: an
\* Exception gives sys.exit(1); after a return, click.echo is called with
\* the keyword fg, which it does not accept, when results['errors'] > 0,
\* and the TypeError gives sys.exit(1) as well; an interrupt is turned into
\* an abort by click.
ScrapeExitCodes ==
    IF run_pc = "done" THEN (IF results.errors > 0 THEN { 1 } ELSE { 0 })
    ELSE { 1 }

\* The exit codes of main() of scraping_orchestrator.py in mode full: an
\* Exception gives sys.exit(1); KeyboardInterrupt is logged and the process
\* ends normally, a CancelledError is not caught and ends it by SIGINT.
MainExitCodes ==
    IF run_pc = "done" THEN { 0 }
    ELSE IF run_pc = "failed" THEN { 1 }
    ELSE { 0, 130 }

\* The process ends: the orchestrator and what it held in memory are gone,
\* the files it wrote stay.
ProcessEnds ==
    /\ run_pc' = "exited"
    /\ run_args' = [save_to_db |-> TRUE, export_files |-> TRUE]
    /\ basic_procedures' = <<>>
    /\ specialized_procedures' = <<>>
    /\ pdf_procedures' = <<>>
    /\ all_procedures' = <<>>
    /\ results' = ZeroResults
    /\ db_conn' = "none"
    /\ run_hist' = ZeroRunHist

ExitScrape(code) ==
    /\ run_pc \in { "done", "failed", "interrupted" }
    /\ exit.entry = "none"
    /\ code \in ScrapeExitCodes
    /\ exit' = [entry |-> "cli_scrape", code |-> code, db |-> "none", outcome |-> run_pc]
    /\ ProcessEnds
    /\ UNCHANGED <<files, interrupt>>
    /\ UNCHANGED <<batch_vars, ext_vars, code_vars, diff_vars, web_vars, docs_vars, late_vars>>

ExitMain(code) ==
    /\ run_pc \in { "done", "failed", "interrupted" }
    /\ exit.entry = "none"
    /\ code \in MainExitCodes
    /\ exit' = [entry |-> "main_full", code |-> code, db |-> "none", outcome |-> run_pc]
    /\ ProcessEnds
    /\ UNCHANGED <<files, interrupt>>
    /\ UNCHANGED <<batch_vars, ext_vars, code_vars, diff_vars, web_vars, docs_vars, late_vars>>

\* What validate finds: setup_connection raises (no engine can be made of
\* the URL), the database cannot be reached, or it answers.
DatabaseStates == { "no_engine", "unreachable", "reachable" }

\* The exit code of `scraper_cli.py validate` and of main() in mode
\* validate: setup_connection is awaited outside the try of
\* validate_database_integrity and its exception gives sys.exit(1); an
\* unreachable database makes get_procedures_count return {} (it catches
\* the exception), validate_database_integrity returns and the process
\* ends with 0.
ValidateExitCode(db) == IF db = "no_engine" THEN 1 ELSE 0

Validate(entry, db) ==
    /\ run_pc = "idle"
    /\ exit.entry = "none"
    /\ exit' = [entry |-> entry, code |-> ValidateExitCode(db), db |-> db,
                outcome |-> IF db = "no_engine" THEN "failed" ELSE "validated"]
    /\ ProcessEnds
    /\ UNCHANGED <<files, interrupt>>
    /\ UNCHANGED <<batch_vars, ext_vars, code_vars, diff_vars, web_vars, docs_vars, late_vars>>

MainIdle ==
    /\ interrupt = NoInterrupt
    /\ exit = NotExited

InitRun ==
    /\ run_pc = "idle"
    /\ run_args = [save_to_db |-> TRUE, export_files |-> TRUE]
    /\ basic_procedures = <<>>
    /\ specialized_procedures = <<>>
    /\ pdf_procedures = <<>>
    /\ all_procedures = <<>>
    /\ results = ZeroResults
    /\ files = {}
    /\ db_conn = "none"
    /\ run_hist = ZeroRunHist

NextRun ==
    \/ \E save_to_db \in BOOLEAN, export_files \in BOOLEAN : StartRun(save_to_db, export_files)
    \/ \E gob \in ScrapedLists, ok \in BOOLEAN : ScrapeBasic(gob, ok)
    \/ \E out \in ScrapedLists, ok \in BOOLEAN : ScrapeSpecialized(out, ok)
    \/ \E out \in ScrapedLists, ok \in BOOLEAN : ProcessPdf(out, ok)
    \/ Merge
    \/ \E connects \in BOOLEAN, batch_ok \in BOOLEAN,
          skipped \in 0..1, errors \in 0..1 :
          Persist(connects, batch_ok, skipped, errors)
    \/ \E written \in 0..Len(ExportFiles) : Export(written)
    \/ \E ok \in BOOLEAN : Report(ok)
    \/ \E left_open \in BOOLEAN, connected \in BOOLEAN : Interrupt(left_open, connected)
    \/ \E code \in { 0, 1 } : ExitScrape(code)
    \/ \E code \in { 0, 1, 130 } : ExitMain(code)
    \/ \E entry \in { "cli_validate", "main_validate" }, db \in DatabaseStates :
           Validate(entry, db)


-----------------------------------------------------------------------------
(* Extractors: tupa_scraper.py, specialized_scraper.py, pdf_processor.py *)

\* A text is a sequence of tokens separated by blanks: words and decimal
\* numerals (integer part, fraction digits as written).
Word(w) == [kind |-> "word", w |-> w, int |-> 0, frac |-> <<>>]

Num(int, frac) == [kind |-> "num", w |-> "", int |-> int, frac |-> frac]

TextTokens ==
    { Word("Tasa:"), Word("S/."), Word("UIT"), Word("soles"),
      Word("gratuito"), Word("costo"),
      Num(150, <<0, 0>>), Num(0, <<5>>), Num(0, <<>>) }

Texts == SeqsUpTo(TextTokens, MaxTokens)

\* Words of the heading, description and URL of a source, and the keywords
\* each contains as a substring (the classifiers test `keyword in text`).
HeadingWords == { "dni", "licencia", "construccion", "exportacion", "constancia" }

KeywordsIn(word) ==
    CASE word = "dni"          -> { "dni" }
      [] word = "licencia"     -> { "licencia" }
      [] word = "construccion" -> { "construccion", "ruc" }
      [] word = "exportacion"  -> { "export" }
      [] OTHER                 -> {}

WordSets ==
    { {} } \cup { {w} : w \in HeadingWords }
           \cup { {"dni", "construccion"}, {"licencia", "exportacion"} }

Docs == [words : WordSets, text : Texts]

IsNum(t) == t.kind = "num"

IsWord(t, w) == t.kind = "word" /\ t.w = w

HasWord(text, w) == \E i \in DOMAIN text : IsWord(text[i], w)

First(S) == CHOOSE i \in S : \A j \in S : i <= j

\* The amount, in hundredths, that (\d+(?:\.\d{2})?) captures at the start
\* of a numeral when nothing has to follow: the integer part, with the
\* first two fraction digits when there are two.
Captured(t) ==
    IF Len(t.frac) >= 2 THEN t.int * 100 + t.frac[1] * 10 + t.frac[2]
    ELSE t.int * 100

\* The amount, in hundredths, that (\d+(?:\.\d{2})?) captures when a word
\* has to follow the numeral (UIT, soles): with exactly one fraction digit
\* the match cannot start at the integer part and starts at that digit.
CapturedBefore(t) ==
    IF Len(t.frac) = 1 THEN t.frac[1] * 100 ELSE Captured(t)

\* float() of a whole numeral, in hundredths.
FloatOf(t) ==
    IF Len(t.frac) = 0 THEN t.int * 100
    ELSE IF Len(t.frac) = 1 THEN t.int * 100 + t.frac[1] * 10
    ELSE t.int * 100 + t.frac[1] * 10 + t.frac[2]

\* Costs are kept in thousandths of a sol, so that the percentage form of
\* the UIT conversion is exact.
SolesCost(hundredths) == hundredths * 10

UIT == 5150

\* cost = uit_value * 5150 / 100 if uit_value < 1 else uit_value * 5150
UitCost(hundredths) ==
    IF hundredths < 100 THEN (hundredths * UIT) \div 10 ELSE hundredths * UIT * 10

\* S/\.?\s*(\d+(?:\.\d{2})?) at token i
SolesAt(text, i) ==
    /\ i + 1 <= Len(text)
    /\ IsWord(text[i], "S/.")
    /\ IsNum(text[i + 1])

\* (\d+(?:\.\d{2})?)\s*soles? at token i
SolesAfterAt(text, i) ==
    /\ i + 1 <= Len(text)
    /\ IsNum(text[i])
    /\ IsWord(text[i + 1], "soles")

\* (\d+(?:\.\d{2})?)\s*%?\s*UIT at token i
UitAt(text, i) ==
    /\ i + 1 <= Len(text)
    /\ IsNum(text[i])
    /\ IsWord(text[i + 1], "UIT")

\* (?:Tasa|Derecho|Arancel)\s*[:.\-\s]*S/\.?\s*(\d+(?:\.\d{2})?) at token i
TasaAt(text, i) ==
    /\ IsWord(text[i], "Tasa:")
    /\ SolesAt(text, i + 1)

\* TupaScraper._extract_cost_info: the first match of cost_pattern, and 0
\* when the text says the procedure is free.
ExtractCostInfo(text) ==
    LET m == { i \in DOMAIN text : SolesAt(text, i) \/ SolesAfterAt(text, i) }
        cost == IF m = {} THEN 0
                ELSE IF SolesAt(text, First(m))
                THEN SolesCost(Captured(text[First(m) + 1]))
                ELSE SolesCost(CapturedBefore(text[First(m)]))
    IN  IF HasWord(text, "gratuito") THEN 0 ELSE cost

\* _extract_sunat_procedure, costs: the UIT expression when there is one,
\* else the direct tasa.
SunatCost(text) ==
    LET u == { i \in DOMAIN text : UitAt(text, i) }
        t == { i \in DOMAIN text : TasaAt(text, i) }
    IN  IF u # {} THEN UitCost(CapturedBefore(text[First(u)]))
        ELSE IF t # {} THEN SolesCost(Captured(text[First(t) + 2]))
        ELSE 0

\* _extract_gob_procedure, costs: in an info section that mentions the cost,
\* the first S/ amount.
GobCost(text) ==
    LET m == { i \in DOMAIN text : SolesAt(text, i) }
    IN  IF HasWord(text, "costo") /\ m # {}
        THEN SolesCost(Captured(text[First(m) + 1]))
        ELSE 0

\* _parse_procedure_section, costs: the first S/ amount, and the UIT
\* expression when that left the cost at 0.
SectionCost(text) ==
    LET m == { i \in DOMAIN text : SolesAt(text, i) }
        u == { i \in DOMAIN text : UitAt(text, i) }
        cost == IF m = {} THEN 0 ELSE SolesCost(Captured(text[First(m) + 1]))
    IN  IF u # {} /\ cost = 0 THEN UitCost(CapturedBefore(text[First(u)])) ELSE cost

\* _parse_tasa_row, cost cell: a cell that is one numeral is converted, any
\* other cell leaves the cost at 0.
TasaRowCost(cell) ==
    IF Len(cell) = 1 /\ IsNum(cell[1]) THEN SolesCost(FloatOf(cell[1])) ELSE 0

\* is_free=cost == 0 of the constructors that compute it.
IsFree_Always(cost) == TRUE

IsFree(cost) == cost = 0

\* `keyword in text` for some keyword of the list.
AnyKeyword(words, keywords) ==
    \E w \in words : KeywordsIn(w) \cap keywords # {}

\* The first category of an ordered table whose keyword list matches;
\* "" when none does.
RECURSIVE FirstCategory(_, _)
FirstCategory(table, words) ==
    IF table = <<>> THEN ""
    ELSE IF AnyKeyword(words, table[1].keywords) THEN table[1].category
    ELSE FirstCategory(Tail(table), words)

\* TupaScraper.categories, in the order of the dict.
TupaCategories ==
    << [category |-> "identidad",   keywords |-> {"dni", "pasaporte", "cedula", "identificacion", "reniec"}],
       [category |-> "empresarial", keywords |-> {"ruc", "empresa", "negocio", "comercio", "sunarp", "sociedad"}],
       [category |-> "educacion",   keywords |-> {"titulo", "grado", "certificado", "educacion", "universidad"}],
       [category |-> "salud",       keywords |-> {"discapacidad", "salud", "medico", "hospital", "minsa"}],
       [category |-> "vehicular",   keywords |-> {"licencia", "conducir", "vehiculo", "transporte", "mtc"}],
       [category |-> "laboral",     keywords |-> {"trabajo", "empleo", "laboral", "planilla", "mintra"}],
       [category |-> "tributario",  keywords |-> {"tributo", "impuesto", "sunat", "fiscal", "declaracion"}],
       [category |-> "municipal",   keywords |-> {"municipal", "licencia", "funcionamiento", "local", "construccion"}] >>

\* The if/elif chain of _categorize_sunat_procedure.
SunatCategories ==
    << [category |-> "aduanero",   keywords |-> {"importac", "export", "aduaner"}],
       [category |-> "tributario", keywords |-> {"ruc", "tributar", "impuest"}],
       [category |-> "deposito",   keywords |-> {"deposit", "almacen"}],
       [category |-> "transito",   keywords |-> {"transit", "transport"}] >>

\* The dict of _categorize_generic_procedure.
GenericCategories ==
    << [category |-> "identidad",   keywords |-> {"dni", "pasaporte", "identificacion"}],
       [category |-> "empresarial", keywords |-> {"empresa", "negocio", "ruc"}],
       [category |-> "vehicular",   keywords |-> {"licencia", "conducir", "vehiculo"}],
       [category |-> "salud",       keywords |-> {"salud", "medico", "sanitario"}],
       [category |-> "educacion",   keywords |-> {"educacion", "titulo", "certificado"}] >>

\* The dict of _categorize_from_content.
ContentCategories ==
    << [category |-> "identidad",   keywords |-> {"dni", "identificación", "pasaporte"}],
       [category |-> "tributario",  keywords |-> {"tributo", "impuesto", "ruc", "declaración"}],
       [category |-> "empresarial", keywords |-> {"empresa", "sociedad", "constitución"}],
       [category |-> "aduanero",    keywords |-> {"aduana", "importación", "exportación"}],
       [category |-> "registro",    keywords |-> {"registro", "inscripción", "certificado"}] >>

OrDefault(category, default) == IF category = "" THEN default ELSE category

\* TupaScraper._classify_procedure
ClassifyProcedure_NoDefault(words) == FirstCategory(TupaCategories, words)

ClassifyProcedure(words) == OrDefault(FirstCategory(TupaCategories, words), "general")

\* SpecializedScraper._categorize_sunat_procedure
CategorizeSunatProcedure(words) ==
    OrDefault(FirstCategory(SunatCategories, words), "tributario")

\* SpecializedScraper._categorize_generic_procedure
CategorizeGenericProcedure(words) ==
    OrDefault(FirstCategory(GenericCategories, words), "general")

\* PDFProcessor._categorize_from_content
CategorizeFromContent(words) ==
    OrDefault(FirstCategory(ContentCategories, words), "general")

\* A produced ProcedureData, by the fields the claims read; classifier names
\* the keyword table that chose the category ("" for a fixed category) and
\* rule_matched says whether one of its keyword lists matched.
Record(extractor, cost, is_free, category, classifier, rule_matched) ==
    [extractor |-> extractor, cost |-> cost, currency |-> "PEN",
     is_free |-> is_free, category |-> category,
     classifier |-> classifier, rule_matched |-> rule_matched]

Fixed(extractor, cost, is_free, category) ==
    Record(extractor, cost, is_free, category, "", FALSE)

Matched(table, words) == FirstCategory(table, words) # ""

\* Each extractor is applied once to the source being read.

\* TupaScraper.scrape_specific_entities: the curated records (cost and
\* is_free as written in _scrape_sunat, _scrape_reniec, _scrape_sunarp).
ScrapeSpecificEntities ==
    /\ produced = <<>>
    /\ produced' = << Fixed("curated", 0, TRUE, "tributario"),
                      Fixed("curated", 0, TRUE, "tributario"),
                      Fixed("curated", 0, TRUE, "tributario"),
                      Fixed("curated", SolesCost(3220), FALSE, "identidad"),
                      Fixed("curated", SolesCost(3220), FALSE, "identidad"),
                      Fixed("curated", SolesCost(3220), FALSE, "identidad"),
                      Fixed("curated", SolesCost(6500), IsFree(SolesCost(6500)), "empresarial"),
                      Fixed("curated", SolesCost(3800), IsFree(SolesCost(3800)), "empresarial"),
                      Fixed("curated", SolesCost(1500), IsFree(SolesCost(1500)), "empresarial") >>
    /\ UNCHANGED <<doc, batch_vars, run_vars, more_vars>>

\* TupaScraper._scrape_single_procedure on a fetched page: no record
\* without a name.
ScrapeSingleProcedure ==
    LET cost == ExtractCostInfo(doc.text) IN
    /\ produced = <<>>
    /\ produced' = IF doc.words = {} THEN <<>>
                   ELSE << Record("basic", cost, IsFree(cost),
                                  ClassifyProcedure(doc.words), "tupa",
                                  Matched(TupaCategories, doc.words)) >>
    /\ UNCHANGED <<doc, batch_vars, run_vars, more_vars>>

\* SpecializedScraper._extract_sunat_procedure
ExtractSunatProcedure ==
    LET cost == SunatCost(doc.text) IN
    /\ produced = <<>>
    /\ produced' = << Record("sunat", cost, IsFree(cost),
                             CategorizeSunatProcedure(doc.words), "sunat",
                             Matched(SunatCategories, doc.words)) >>
    /\ UNCHANGED <<doc, batch_vars, run_vars, more_vars>>

\* SpecializedScraper._extract_gob_procedure
ExtractGobProcedure ==
    LET cost == GobCost(doc.text) IN
    /\ produced = <<>>
    /\ produced' = << Record("gob", cost, IsFree(cost),
                             CategorizeGenericProcedure(doc.words), "generic",
                             Matched(GenericCategories, doc.words)) >>
    /\ UNCHANGED <<doc, batch_vars, run_vars, more_vars>>

\* SpecializedScraper._extract_reniec_procedure
ExtractReniecProcedure ==
    /\ produced = <<>>
    /\ produced' = << Fixed("reniec", SolesCost(3220), FALSE, "identidad") >>
    /\ UNCHANGED <<doc, batch_vars, run_vars, more_vars>>

\* SpecializedScraper._extract_mtc_procedure
ExtractMtcProcedure ==
    /\ produced = <<>>
    /\ produced' = << Fixed("mtc", 0, TRUE, "vehicular") >>
    /\ UNCHANGED <<doc, batch_vars, run_vars, more_vars>>

\* SpecializedScraper._extract_generic_procedure
ExtractGenericProcedure ==
    /\ produced = <<>>
    /\ produced' = << Fixed("generic", 0, TRUE, "general") >>
    /\ UNCHANGED <<doc, batch_vars, run_vars, more_vars>>

\* PDFProcessor._parse_procedure_section: no record without a name.
ParseProcedureSection ==
    LET cost == SectionCost(doc.text) IN
    /\ produced = <<>>
    /\ produced' = IF doc.words = {} THEN <<>>
                   ELSE << Record("pdf_section", cost, IsFree(cost),
                                  CategorizeFromContent(doc.words), "content",
                                  Matched(ContentCategories, doc.words)) >>
    /\ UNCHANGED <<doc, batch_vars, run_vars, more_vars>>

\* PDFProcessor._parse_tasa_row: the row [name, cost cell, ...]; no record
\* without a name of 5 characters.
ParseTasaRow ==
    LET cost == TasaRowCost(doc.text) IN
    /\ produced = <<>>
    /\ produced' = IF doc.words = {} THEN <<>>
                   ELSE << Fixed("tasa_row", cost, IsFree(cost), "tasa") >>
    /\ UNCHANGED <<doc, batch_vars, run_vars, more_vars>>

\* PDFProcessor._process_registro_pdf: three fixed records.
ProcessRegistroPdf ==
    /\ produced = <<>>
    /\ produced' = << Fixed("registro", 0, IsFree(0), "identidad"),
                      Fixed("registro", SolesCost(5000), IsFree(SolesCost(5000)), "identidad"),
                      Fixed("registro", SolesCost(1500), IsFree(SolesCost(1500)), "identidad") >>
    /\ UNCHANGED <<doc, batch_vars, run_vars, more_vars>>

\* PDFProcessor._extract_manual_procedures
ExtractManualProcedures ==
    /\ produced = <<>>
    /\ produced' = << Fixed("manual", 0, TRUE, "consulta") >>
    /\ UNCHANGED <<doc, batch_vars, run_vars, more_vars>>

\* PDFProcessor._process_centros_xlsx
ProcessCentrosXlsx ==
    /\ produced = <<>>
    /\ produced' = << Fixed("centros", 0, TRUE, "identidad") >>
    /\ UNCHANGED <<doc, batch_vars, run_vars, more_vars>>

\* PDFProcessor._process_generic_xlsx
ProcessGenericXlsx ==
    /\ produced = <<>>
    /\ produced' = << Fixed("xlsx", 0, TRUE, "consulta") >>
    /\ UNCHANGED <<doc, batch_vars, run_vars, more_vars>>

InitExtractIdle ==
    /\ doc = [words |-> {}, text |-> <<>>]
    /\ produced = <<>>

InitExtract ==
    /\ doc \in Docs
    /\ produced = <<>>

NextExtract ==
    \/ ScrapeSpecificEntities
    \/ ScrapeSingleProcedure
    \/ ExtractSunatProcedure
    \/ ExtractGobProcedure
    \/ ExtractReniecProcedure
    \/ ExtractMtcProcedure
    \/ ExtractGenericProcedure
    \/ ParseProcedureSection
    \/ ParseTasaRow
    \/ ProcessRegistroPdf
    \/ ExtractManualProcedures
    \/ ProcessCentrosXlsx
    \/ ProcessGenericXlsx

-----------------------------------------------------------------------------
(* Synthetic tupa_code generation: specialized_scraper.py, pdf_processor.py *)

\* Strings are sequences of characters where the code works on characters.
DespaPg == << "d", "e", "s", "p", "a", "-", "p", "g" >>

Htm == << ".", "h", "t", "m" >>

\* URL paths: none, "/", "/despa-pg.01.htm", "/250-renovar-dni".
UrlPaths ==
    { <<>>,
      << "/" >>,
      << "/" >> \o DespaPg \o << ".", "0", "1" >> \o Htm,
      << "/", "2", "5", "0", "-", "r", "e", "n", "o", "v", "a", "r", "-", "d", "n", "i" >> }

\* The strings a synthetic code is derived from.
CodeSources ==
    [kind : {"url"}, chars : UrlPaths]
        \cup [kind : {"xlsx", "tasa_row"}, chars : { << "a" >>, << "d", "n", "i" >> }]

\* hash() of a str is salted per interpreter process (PYTHONHASHSEED is not
\* set anywhere in the repository): in one process it is a function of the
\* string, across processes it can be any value.
HashValues == { 0, 1, 1001, 10001 }

SubAt(s, sub, i) ==
    /\ i + Len(sub) - 1 <= Len(s)
    /\ \A k \in 1..Len(sub) : s[i + k - 1] = sub[k]

\* `sub in s`
Contains(s, sub) == \E i \in 1..Len(s) : SubAt(s, sub, i)

RECURSIVE Remove(_, _)
\* s.replace(sub, '')
Remove(s, sub) ==
    IF s = <<>> THEN <<>>
    ELSE IF SubAt(s, sub, 1) THEN Remove(SubSeq(s, Len(sub) + 1, Len(s)), sub)
    ELSE << Head(s) >> \o Remove(Tail(s), sub)

UpperChar(c) ==
    CASE c = "a" -> "A" [] c = "d" -> "D" [] c = "e" -> "E" [] c = "g" -> "G"
      [] c = "h" -> "H" [] c = "i" -> "I" [] c = "m" -> "M" [] c = "n" -> "N"
      [] c = "o" -> "O" [] c = "p" -> "P" [] c = "r" -> "R" [] c = "s" -> "S"
      [] c = "t" -> "T" [] c = "v" -> "V" [] OTHER -> c

\* s.upper()
Upper(s) == [i \in 1..Len(s) |-> UpperChar(s[i])]

\* s[:n]
Take(s, n) == SubSeq(s, 1, IF Len(s) < n THEN Len(s) ELSE n)

\* path.split('/')[-1]
LastPart(path) ==
    LET slashes == { i \in 1..Len(path) : path[i] = "/" }
        last == CHOOSE i \in slashes : \A j \in slashes : j <= i
    IN  IF slashes = {} THEN path ELSE SubSeq(path, last + 1, Len(path))

\* The positions where despa-pg\.([^.]+) matches, and what the group
\* captures at position i: the longest run of characters other than ".".
DespaPgMatches(path) ==
    { i \in 1..Len(path) :
        /\ SubAt(path, DespaPg \o << "." >>, i)
        /\ i + Len(DespaPg) + 1 <= Len(path)
        /\ path[i + Len(DespaPg) + 1] # "." }

DespaPgGroup(path, i) ==
    LET from == i + Len(DespaPg) + 1
        dots == { j \in from..Len(path) : path[j] = "." }
        to   == IF dots = {} THEN Len(path) ELSE First(dots) - 1
    IN  SubSeq(path, from, to)

\* SpecializedScraper._generate_code_from_url, on the path of the URL and
\* hash(url).
CodeFromUrl(path, h) ==
    IF Contains(path, DespaPg) /\ DespaPgMatches(path) # {}
    THEN [prefix |-> "SUNAT-PG-",
          body |-> Upper(DespaPgGroup(path, First(DespaPgMatches(path))))]
    ELSE IF Contains(path, << "/" >>)
    THEN [prefix |-> "GOB-",
          body |-> Take(Upper(Remove(Remove(LastPart(path), Htm), << "-" >>)), 10)]
    ELSE [prefix |-> "PROC-", body |-> << h % 10000 >>]

\* tupa_code=f"GOB-EXCEL-{hash(filepath) % 1000:03d}" of _process_generic_xlsx
ExcelCode(h) == [prefix |-> "GOB-EXCEL-", body |-> << h % 1000 >>]

\* tupa_code=f"TASA-{hash(name) % 1000:03d}" of _parse_tasa_row
TasaCode(h) == [prefix |-> "TASA-", body |-> << h % 1000 >>]

\* Each process derives the code of the source once.
GenerateCodeFromUrl ==
    /\ code_src.kind = "url"
    /\ Len(codes) < process
    /\ codes' = Append(codes, CodeFromUrl(code_src.chars, str_hash))
    /\ UNCHANGED <<code_src, str_hash, process>>
    /\ UNCHANGED <<batch_vars, run_vars, ext_vars, diff_vars, web_vars, docs_vars, main_vars, late_vars>>

GenericXlsxCode ==
    /\ code_src.kind = "xlsx"
    /\ Len(codes) < process
    /\ codes' = Append(codes, ExcelCode(str_hash))
    /\ UNCHANGED <<code_src, str_hash, process>>
    /\ UNCHANGED <<batch_vars, run_vars, ext_vars, diff_vars, web_vars, docs_vars, main_vars, late_vars>>

TasaRowCode ==
    /\ code_src.kind = "tasa_row"
    /\ Len(codes) < process
    /\ codes' = Append(codes, TasaCode(str_hash))
    /\ UNCHANGED <<code_src, str_hash, process>>
    /\ UNCHANGED <<batch_vars, run_vars, ext_vars, diff_vars, web_vars, docs_vars, main_vars, late_vars>>

\* The pipeline is run again, in a new interpreter process.
NextProcess ==
    /\ Len(codes) = process
    /\ process < MaxProcesses
    /\ process' = process + 1
    /\ str_hash' \in HashValues
    /\ UNCHANGED <<code_src, codes>>
    /\ UNCHANGED <<batch_vars, run_vars, ext_vars, diff_vars, web_vars, docs_vars, main_vars, late_vars>>

CodesIdle ==
    /\ code_src = [kind |-> "url", chars |-> <<>>]
    /\ str_hash = 0
    /\ process = 1
    /\ codes = <<>>

InitCodes ==
    /\ code_src \in CodeSources
    /\ str_hash \in HashValues
    /\ process = 1
    /\ codes = <<>>

NextCodes ==
    \/ GenerateCodeFromUrl
    \/ GenericXlsxCode
    \/ TasaRowCode
    \/ NextProcess

-----------------------------------------------------------------------------
(* Difficulty assessment: tupa_scraper.py, specialized_scraper.py *)

\* Requirement texts, lowercased: one without a complexity word, one with a
\* word of TupaScraper's list, one with a word of the SUNAT list.
RequirementTexts == { "copia", "certificado", "declaracion" }

Soles(n) == n * 1000

\* Costs given to the difficulty functions: 0, 60, 150 and 1500 soles.
AssessedCosts == { 0, Soles(60), Soles(150), Soles(1500) }

\* any(word in text for word in complex_words) on the joined requirements
AnyComplexWord(requirements, complex_words) ==
    \E i \in DOMAIN requirements : requirements[i] \in complex_words

Level(score) == IF score <= 1 THEN "easy" ELSE IF score = 2 THEN "medium" ELSE "hard"

Point(condition) == IF condition THEN 1 ELSE 0

\* TupaScraper._assess_difficulty
AssessDifficultyOf(requirements, cost) ==
    Level(Point(Len(requirements) > 5)
          + Point(cost > Soles(100))
          + Point(AnyComplexWord(requirements,
                                 {"certificado", "autenticado", "notarizado", "apostillado"})))

\* SpecializedScraper._assess_difficulty_sunat
AssessDifficultySunatOf(requirements, cost) ==
    Level(Point(Len(requirements) > 6)
          + Point(cost > Soles(1000))
          + Point(AnyComplexWord(requirements,
                                 {"declaracion", "aforo", "valorizacion", "arancel"})))

\* SpecializedScraper._assess_difficulty_generic: two factors, and
\* 'easy' if score <= 1 else 'medium'
AssessDifficultyGenericOf(requirements, cost) ==
    LET score == Point(Len(requirements) > 4) + Point(cost > Soles(50))
    IN  IF score <= 1 THEN "easy" ELSE "medium"

Assessed(function, level) ==
    /\ difficulty.function = "none"
    /\ difficulty' = [function |-> function, level |-> level]
    /\ UNCHANGED assessed
    /\ UNCHANGED <<batch_vars, run_vars, ext_vars, code_vars, web_vars, docs_vars, main_vars, late_vars>>

AssessDifficulty ==
    /\ Assessed("basic", AssessDifficultyOf(assessed.requirements, assessed.cost))

AssessDifficultySunat ==
    /\ Assessed("sunat", AssessDifficultySunatOf(assessed.requirements, assessed.cost))

AssessDifficultyGeneric ==
    /\ Assessed("generic", AssessDifficultyGenericOf(assessed.requirements, assessed.cost))

DifficultyIdle ==
    /\ assessed = [requirements |-> <<>>, cost |-> 0]
    /\ difficulty = [function |-> "none", level |-> "none"]

InitDifficulty ==
    /\ assessed \in [requirements : SeqsUpTo(RequirementTexts, MaxRequirements),
                     cost : AssessedCosts]
    /\ difficulty = [function |-> "none", level |-> "none"]

NextDifficulty ==
    \/ AssessDifficulty
    \/ AssessDifficultySunat
    \/ AssessDifficultyGeneric

-----------------------------------------------------------------------------
(* Web extractors, the URL loops: specialized_scraper.py, tupa_scraper.py *)

\* URLs are told apart by their host (urlparse(url).netloc).
Hosts ==
    { "www.sunat.gob.pe", "www.gob.pe", "www.reniec.gob.pe",
      "tupadigital.mtc.gob.pe", "www.municap.com" }

\* The keys of specialized_extractors that are substrings of a host.
DomainKeysIn(host) ==
    CASE host = "www.sunat.gob.pe"       -> { "sunat.gob.pe", "gob.pe" }
      [] host = "www.gob.pe"             -> { "gob.pe" }
      [] host = "www.reniec.gob.pe"      -> { "reniec.gob.pe", "gob.pe" }
      [] host = "tupadigital.mtc.gob.pe" -> { "mtc.gob.pe", "gob.pe" }
      [] OTHER                           -> {}

\* SpecializedScraper.specialized_extractors, in the order of the dict.
SpecializedExtractors ==
    << [domain_key |-> "sunat.gob.pe",  extractor |-> "sunat"],
       [domain_key |-> "gob.pe",        extractor |-> "gob"],
       [domain_key |-> "reniec.gob.pe", extractor |-> "reniec"],
       [domain_key |-> "mtc.gob.pe",    extractor |-> "mtc"] >>

RECURSIVE FirstExtractor(_, _)
\* The for loop of _scrape_specialized_url: the first entry whose key is in
\* the host, else the generic extractor.
FirstExtractor(table, host) ==
    IF table = <<>> THEN "generic"
    ELSE IF table[1].domain_key \in DomainKeysIn(host) THEN table[1].extractor
    ELSE FirstExtractor(Tail(table), host)

\* Outcomes of session.get: a status, or an exception (timeout, network).
Responses == { "200", "404", "timeout" }

\* What a specialized extractor returns for a fetched page: each of them
\* falls back to a default name when the page has no title.
SpecializedReturns(extractor, has_title) == "record"

\* What _scrape_single_procedure returns for a fetched page.
SingleReturns(has_title) == IF has_title THEN "record" ELSE "None"

Request(host) == [event |-> "request", host |-> host]

Sleep == [event |-> "sleep", host |-> ""]

Call(scraper, host, response, has_title, extractor, returned) ==
    [scraper |-> scraper, host |-> host, response |-> response,
     has_title |-> has_title, extractor |-> extractor, returned |-> returned]

\* SpecializedScraper.scrape_specialized_urls, up to the loop: the target
\* URLs are never empty (load_target_urls falls back to a fixed list).
ScrapeSpecializedUrls(target_urls) ==
    /\ web_pc = "idle"
    /\ target_urls # <<>>
    /\ web_pc' = "specialized"
    /\ urls' = target_urls
    /\ url_i' = 1
    /\ web_procedures' = <<>>
    /\ UNCHANGED <<web_calls, web_log, page_links>>
    /\ UNCHANGED <<batch_vars, run_vars, ext_vars, code_vars, diff_vars, docs_vars, main_vars, late_vars>>

\* One iteration of the loop: _scrape_specialized_url (request, dispatch,
\* extractor; None on a status other than 200 or on an exception), append,
\* sleep.
ScrapeSpecializedUrl(response, has_title) ==
    /\ web_pc = "specialized"
    /\ url_i <= Len(urls)
    /\ LET host      == urls[url_i]
           extractor == IF response = "200"
                        THEN FirstExtractor(SpecializedExtractors, host)
                        ELSE "none"
           returned  == IF response = "200"
                        THEN SpecializedReturns(extractor, has_title)
                        ELSE "None"
       IN  /\ web_procedures' =
                  IF returned = "record"
                  THEN Append(web_procedures, [host |-> host, extractor |-> extractor])
                  ELSE web_procedures
           /\ web_calls' = Append(web_calls,
                  Call("specialized", host, response, has_title, extractor, returned))
           /\ web_log' = web_log \o << Request(host), Sleep >>
    /\ url_i' = url_i + 1
    /\ UNCHANGED <<web_pc, urls, page_links>>
    /\ UNCHANGED <<batch_vars, run_vars, ext_vars, code_vars, diff_vars, docs_vars, main_vars, late_vars>>

\* The end of a loop: the list is returned.
LoopDone ==
    /\ web_pc \in { "specialized", "basic" }
    /\ url_i > Len(urls)
    /\ web_pc' = "done"
    /\ UNCHANGED <<urls, url_i, web_procedures, web_calls, web_log, page_links>>
    /\ UNCHANGED <<batch_vars, run_vars, ext_vars, code_vars, diff_vars, docs_vars, main_vars, late_vars>>

\* The elements of a list.
Elements(list) == { list[i] : i \in DOMAIN list }

\* list(set(links)): the distinct links, in the iteration order of a set of
\* strings, which follows their hashes; str hashes are salted per
\* interpreter process, so any order of the distinct links can come out.
ListOfSet(links) ==
    { list \in SeqsUpTo(Elements(links), Len(links)) :
        /\ Elements(list) = Elements(links)
        /\ Len(list) = Cardinality(Elements(links)) }

\* _extract_procedure_links: the valid links of the page are appended in
\* page order and returned as list(set(links)).
ExtractProcedureLinks(links) == ListOfSet(links)

\* TupaScraper.scrape_gob_pe_procedures, up to the loop: the request of the
\* search page and, on status 200, its links.
ScrapeGobPeProcedures(response, links) ==
    /\ web_pc = "idle"
    /\ web_pc' = IF response = "200" THEN "basic" ELSE "done"
    /\ page_links' = IF response = "200" THEN links ELSE <<>>
    /\ \E procedure_links \in ExtractProcedureLinks(links) :
          urls' = IF response = "200" THEN procedure_links ELSE <<>>
    /\ url_i' = 1
    /\ web_procedures' = <<>>
    /\ web_log' = Append(web_log, Request("www.gob.pe"))
    /\ UNCHANGED web_calls
    /\ UNCHANGED <<batch_vars, run_vars, ext_vars, code_vars, diff_vars, docs_vars, main_vars, late_vars>>

\* One iteration of its loop: _scrape_single_procedure (request; None on a
\* status other than 200, on an exception, on a page without name), append,
\* sleep.
ScrapeSingleUrl(response, has_title) ==
    /\ web_pc = "basic"
    /\ url_i <= Len(urls)
    /\ LET host     == urls[url_i]
           returned == IF response = "200" THEN SingleReturns(has_title) ELSE "None"
       IN  /\ web_procedures' =
                  IF returned = "record"
                  THEN Append(web_procedures, [host |-> host, extractor |-> "basic"])
                  ELSE web_procedures
           /\ web_calls' = Append(web_calls,
                  Call("basic", host, response, has_title,
                       IF response = "200" THEN "basic" ELSE "none", returned))
           /\ web_log' = web_log \o << Request(host), Sleep >>
    /\ url_i' = url_i + 1
    /\ UNCHANGED <<web_pc, urls, page_links>>
    /\ UNCHANGED <<batch_vars, run_vars, ext_vars, code_vars, diff_vars, docs_vars, main_vars, late_vars>>

WebIdle ==
    /\ web_pc = "idle"
    /\ urls = <<>>
    /\ url_i = 1
    /\ web_procedures = <<>>
    /\ web_calls = <<>>
    /\ web_log = <<>>
    /\ page_links = <<>>

NextWeb ==
    \/ \E target_urls \in SeqsUpTo(Hosts, MaxUrls) : ScrapeSpecializedUrls(target_urls)
    \/ \E response \in Responses, has_title \in BOOLEAN :
           ScrapeSpecializedUrl(response, has_title)
    \/ \E response \in Responses, links \in SeqsUpTo(Hosts, MaxUrls) :
           ScrapeGobPeProcedures(response, links)
    \/ \E response \in Responses, has_title \in BOOLEAN :
           ScrapeSingleUrl(response, has_title)
    \/ LoopDone

-----------------------------------------------------------------------------
(* Document extractor, the loop over the files: pdf_processor.py *)

\* The processor a file name is dispatched to (_process_pdf_file,
\* _process_excel_file).
PdfProcessors == { "tupa", "tasas", "manual", "registro", "generic_pdf" }

ExcelProcessors == { "centros", "generic_xlsx" }

\* What a file holds: no extractable text (no table, an empty sheet), text
\* in which no section (row, step) can be parsed, or text with sections.
Contents == { "no_text", "no_sections", "sections" }

\* A file: its processor, its content, and whether opening or reading it
\* raises.
DocFiles == [processor : PdfProcessors \cup ExcelProcessors,
             content : Contents, raises : BOOLEAN]

\* scan_pdf_files returns pdf_files + xlsx_files.
PdfsFirst(found) ==
    \A i, j \in DOMAIN found :
        (i < j /\ found[j].processor \in PdfProcessors)
            => found[i].processor \in PdfProcessors

ScannedFiles == { found \in SeqsUpTo(DocFiles, MaxFiles) : PdfsFirst(found) }

\* The number of records a file with sections holds.
RecordsOf(file) == IF file.content = "sections" THEN 2 ELSE 0

\* The numbers of records a processor can return for a file; every
\* processor catches its own exceptions and returns its list.
Yields(file) ==
    CASE file.processor \in { "tupa", "manual", "generic_pdf" } ->
             IF file.raises THEN { 0 } ELSE { RecordsOf(file) }
      [] file.processor = "tasas" ->
             \* rows parsed before the exception are kept
             IF file.raises THEN 0..RecordsOf(file) ELSE { RecordsOf(file) }
      [] file.processor = "registro" ->
             \* the file is not opened: three fixed records
             { 3 }
      [] file.processor = "centros" ->
             IF file.raises \/ file.content = "no_text" THEN { 0 } ELSE { 1 }
      [] file.processor = "generic_xlsx" ->
             IF file.raises THEN { 0 } ELSE { 1 }

\* The records of one file, as (file position, record number).
FileRecords(position, count) == [n \in 1..count |-> [file |-> position, n |-> n]]

\* all_procedures.extend(procedures)
Extend_Replace(all, procedures) == procedures

Extend(all, procedures) == all \o procedures

\* process_all_documents, up to the loop: no file found returns [].
ProcessAllDocuments ==
    /\ docs_pc = "idle"
    /\ \E found \in ScannedFiles :
          /\ docs_pc' = IF found = <<>> THEN "returned" ELSE "loop"
          /\ doc_files' = found
    /\ file_i' = 1
    /\ doc_procedures' = <<>>
    /\ docs_hist' = <<>>
    /\ UNCHANGED <<batch_vars, run_vars, ext_vars, code_vars, diff_vars, web_vars, main_vars, late_vars>>

\* One iteration of the loop: the processor of the file, and extend when
\* it returned records.
ProcessFile(count) ==
    /\ docs_pc = "loop"
    /\ file_i <= Len(doc_files)
    /\ count \in Yields(doc_files[file_i])
    /\ doc_procedures' =
           IF count > 0 THEN Extend(doc_procedures, FileRecords(file_i, count))
           ELSE doc_procedures
    /\ docs_hist' = Append(docs_hist, [file |-> doc_files[file_i], yielded |-> count])
    /\ file_i' = file_i + 1
    /\ UNCHANGED <<docs_pc, doc_files>>
    /\ UNCHANGED <<batch_vars, run_vars, ext_vars, code_vars, diff_vars, web_vars, main_vars, late_vars>>

\* return all_procedures
DocumentsDone ==
    /\ docs_pc = "loop"
    /\ file_i > Len(doc_files)
    /\ docs_pc' = "returned"
    /\ UNCHANGED <<doc_files, file_i, doc_procedures, docs_hist>>
    /\ UNCHANGED <<batch_vars, run_vars, ext_vars, code_vars, diff_vars, web_vars, main_vars, late_vars>>

DocsIdle ==
    /\ docs_pc = "idle"
    /\ doc_files = <<>>
    /\ file_i = 1
    /\ doc_procedures = <<>>
    /\ docs_hist = <<>>

NextDocs ==
    \/ ProcessAllDocuments
    \/ \E count \in 0..3 : ProcessFile(count)
    \/ DocumentsDone

-----------------------------------------------------------------------------
(* Requirements lists: tupa_scraper.py, specialized_scraper.py, pdf_processor.py *)

\* A source of requirements: the number of list items that pass the length
\* filter of the extractor, how many different texts they are, and whether
\* they stand in a section that mentions 'requisito'.
RequirementSources ==
    { source \in [items : 0..MaxItems, distinct : 0..MaxItems, in_section : BOOLEAN] :
        IF source.items = 0 THEN source.distinct = 0
        ELSE source.distinct \in 1..source.items }

\* The item texts in source order; texts are numbered, the k-th item
\* repeats an earlier text once the distinct ones are used up.
ItemsOf(source) ==
    [k \in 1..source.items |-> ((k - 1) % source.distinct) + 1]

RECURSIVE Ascending(_)
\* A set of texts as a list.
Ascending(S) ==
    IF S = {} THEN <<>>
    ELSE LET least == CHOOSE x \in S : \A y \in S : x <= y
         IN  << least >> \o Ascending(S \ { least })

\* requirements[:10] of TupaScraper._extract_requirements
ExtractRequirements(items) == Take(items, 10)

\* list(set(requirements))[:8] of _extract_requirements_sunat: the texts
\* that are kept are the first 8 of the set's iteration order, any 8 of
\* the distinct texts.
ExtractRequirementsSunat(items) ==
    LET texts == Elements(items)
        kept  == IF Cardinality(texts) < 8 THEN Cardinality(texts) ELSE 8
    IN  { Ascending(S) : S \in { T \in SUBSET texts : Cardinality(T) = kept } }

\* requirements[:6] of _extract_requirements_generic
ExtractRequirementsGeneric(items) == Take(items, 6)

\* _extract_gob_procedure: requirements.extend(...) with every li of the
\* sections that mention 'requisito'; the generic extraction when that
\* gave nothing.
GobRequirements(source) ==
    IF source.in_section /\ source.items > 0 THEN ItemsOf(source)
    ELSE ExtractRequirementsGeneric(ItemsOf(source))

\* requirements[:6] of _extract_requirements_from_section
ExtractRequirementsFromSection(items) == Take(items, 6)

\* The lengths of the requirement lists written in the code: the curated
\* records, the RENIEC defaults, the one- and two-line lists of the MTC,
\* registro, centros, tasas and manual records.
FixedRequirements == { 1, 2, 3, 4, 5 }

NoRequirements == [extractor |-> "none", requirements |-> <<>>]

Requirements(extractor, requirements) ==
    /\ req_record = NoRequirements
    /\ req_record' = [extractor |-> extractor, requirements |-> requirements]
    /\ UNCHANGED req_source
    /\ UNCHANGED <<early_vars, seg_vars, key_vars>>

\* _scrape_single_procedure
SingleProcedureRequirements ==
    /\ Requirements("basic", ExtractRequirements(ItemsOf(req_source)))

\* _extract_sunat_procedure
SunatProcedureRequirements ==
    /\ \E requirements \in ExtractRequirementsSunat(ItemsOf(req_source)) :
           Requirements("sunat", requirements)

\* _extract_gob_procedure
GobProcedureRequirements ==
    /\ Requirements("gob", GobRequirements(req_source))

\* _extract_reniec_procedure: the generic extraction, and for a 'duplicado'
\* page without list items the four default lines.
ReniecProcedureRequirements ==
    /\ \E duplicado \in BOOLEAN :
           Requirements("reniec",
               IF req_source.items = 0 /\ duplicado THEN << 1, 2, 3, 4 >>
               ELSE ExtractRequirementsGeneric(ItemsOf(req_source)))

\* _extract_generic_procedure
GenericProcedureRequirements ==
    /\ Requirements("generic", ExtractRequirementsGeneric(ItemsOf(req_source)))

\* _parse_procedure_section
SectionRequirements ==
    /\ Requirements("pdf_section", ExtractRequirementsFromSection(ItemsOf(req_source)))

\* The constructors with a list written in the code.
WrittenRequirements ==
    /\ \E n \in FixedRequirements :
           Requirements("fixed", [k \in 1..n |-> k])

ReqIdle ==
    /\ req_source = [items |-> 0, distinct |-> 0, in_section |-> FALSE]
    /\ req_record = NoRequirements


InitRequirements ==
    /\ req_source \in RequirementSources
    /\ req_record = NoRequirements

NextRequirements ==
    \/ SingleProcedureRequirements
    \/ SunatProcedureRequirements
    \/ GobProcedureRequirements
    \/ ReniecProcedureRequirements
    \/ GenericProcedureRequirements
    \/ SectionRequirements
    \/ WrittenRequirements

-----------------------------------------------------------------------------
(* Full-text segmentation: pdf_processor.py *)

\* A line of the text: whether it matches one of procedure_markers, and
\* its length once stripped (0: an empty line). Marker lines are taken of
\* the numbered kind (^\d+\.\s+[A-Z]), which carries none of the prefixes
\* that _extract_procedure_name removes.
Lines ==
    { [marker |-> FALSE, chars |-> 0],
      [marker |-> TRUE,  chars |-> 12], [marker |-> TRUE,  chars |-> 120],
      [marker |-> FALSE, chars |-> 12], [marker |-> FALSE, chars |-> 120] }

RECURSIVE Repeat(_, _)
Repeat(block, times) == IF times = 0 THEN <<>> ELSE block \o Repeat(block, times - 1)

\* The texts: every short text, and long texts of a repeated block.
SegTexts ==
    SeqsUpTo(Lines, MaxLines)
      \cup { Repeat(block, times) : block \in SeqsUpTo(Lines, 2) \ { <<>> },
                                    times \in 1..MaxRepeat }

RECURSIVE Segment(_, _, _, _)
\* The loop over text.split('\n'); a section is the list of the positions
\* of its lines, current_section == "" is the empty list.
Segment(text, i, sections, current_section) ==
    IF i > Len(text)
    THEN IF current_section # <<>> THEN Append(sections, current_section) ELSE sections
    ELSE IF text[i].chars = 0
    THEN Segment(text, i + 1, sections, current_section)
    ELSE IF text[i].marker /\ current_section # <<>>
    THEN Segment(text, i + 1, Append(sections, current_section), << i >>)
    ELSE Segment(text, i + 1, sections, Append(current_section, i))

RECURSIVE SectionChars(_, _)
\* len(section.strip()): the lines joined by one space.
SectionChars(text, section) ==
    IF section = <<>> THEN 0
    ELSE IF Len(section) = 1 THEN text[section[1]].chars
    ELSE text[section[1]].chars + 1 + SectionChars(text, Tail(section))

\* _extract_procedure_name gives a name: the section holds no newline, so
\* it is one line, taken when len(line) > 10 and len(line) < 200.
HasName(text, section) ==
    SectionChars(text, section) > 10 /\ SectionChars(text, section) < 200

\* sections[:20]
FirstSections_All(sections) == sections

FirstSections(sections) == Take(sections, 20)

RECURSIVE ParseSections(_, _, _)
\* The loop over enumerate(sections[:20]): _parse_procedure_section gives
\* None for a section without name.
ParseSections(text, sections, i) ==
    IF i > Len(sections) THEN <<>>
    ELSE (IF HasName(text, sections[i])
          THEN << [index |-> i, section |-> sections[i]] >> ELSE <<>>)
         \o ParseSections(text, sections, i + 1)

NoSegments == [called |-> FALSE, sections |-> <<>>, procedures |-> <<>>]

\* _extract_procedures_from_text
ExtractProceduresFromText ==
    /\ ~ seg_out.called
    /\ LET sections == Segment(seg_text, 1, <<>>, <<>>)
       IN  seg_out' = [called |-> TRUE, sections |-> sections,
                       procedures |-> ParseSections(seg_text, FirstSections(sections), 1)]
    /\ UNCHANGED seg_text
    /\ UNCHANGED <<early_vars, req_vars, key_vars>>

\* The next text is given to the function.
NextText ==
    /\ seg_out.called
    /\ seg_out' = NoSegments
    /\ seg_text' \in SegTexts
    /\ UNCHANGED <<early_vars, req_vars, key_vars>>

SegIdle ==
    /\ seg_text = <<>>
    /\ seg_out = NoSegments

NextSegments ==
    \/ ExtractProceduresFromText
    \/ NextText

-----------------------------------------------------------------------------
(* Natural keys: the (entity_code, tupa_code) of the records that the page
   extractor and the section parser build, and the rows a committed batch
   leaves on an empty store.                                               *)

\* Pages are identified by their URL; the entity is chosen by a substring
\* of the URL (tupa_scraper.py:297-332).
PageUrls ==
    { "https://www.gob.pe/institucion/pcm/tramites/a",
      "https://www.gob.pe/institucion/pcm/tramites/b",
      "https://www.sunat.gob.pe/tramites/a" }

UrlMentions(url) ==
    IF url = "https://www.sunat.gob.pe/tramites/a" THEN "sunat" ELSE "none"

ExtractEntityInfo(url) ==
    IF UrlMentions(url) = "sunat" THEN "SUNAT" ELSE "GOB"

\* What the text of a page or section holds after "TUPA", "Código" or "N°":
\* nothing, or one of these codes.
CodesInText == { "", "TUPA-12" }

\* _extract_tupa_code: the first match of the patterns, else "".
ExtractTupaCode(code_in_text) == code_in_text

PdfFiles == { "tupa_integral.pdf", "otro.pdf" }

SectionIndexes == { 1, 2 }

SectionWords == { "sunat", "none" }

InferEntityFromSection(words) ==
    IF words = "sunat" THEN "SUNAT" ELSE "GOB"

\* f"PDF-{index:03d}"
PdfCode(index) == IF index = 1 THEN "PDF-001" ELSE "PDF-002"

\* _parse_procedure_section: the matched code, else the fallback built from
\* the position of the section in its own file.
SectionTupaCode(code_in_text, index) ==
    IF code_in_text # "" THEN code_in_text ELSE PdfCode(index)

\* source_name is "TUPA Integral" or "Documento PDF", chosen by the file
\* name (pdf_processor.py:118-131).
SourceName(file) ==
    IF file = "tupa_integral.pdf" THEN "TUPA Integral" ELSE "Documento PDF"

KeySources ==
    { [kind |-> "page", at |-> url, index |-> 0, words |-> UrlMentions(url), code_in_text |-> c] :
         url \in PageUrls, c \in CodesInText }
    \cup
    { [kind |-> "section", at |-> f, index |-> i, words |-> w, code_in_text |-> c] :
         f \in PdfFiles, i \in SectionIndexes, w \in SectionWords, c \in CodesInText }

\* The ProcedureData built from one source: its natural key and source_url.
RecordOf(source) ==
    IF source.kind = "page"
    THEN [entity_code |-> ExtractEntityInfo(source.at),
          tupa_code   |-> ExtractTupaCode(source.code_in_text),
          source_url  |-> source.at]
    ELSE [entity_code |-> InferEntityFromSection(source.words),
          tupa_code   |-> SectionTupaCode(source.code_in_text, source.index),
          source_url  |-> SourceName(source.at)]

\* Sequences of pairwise different sources; a page (URL) is read once and a
\* section is one position of one file.
SameSource(a, b) ==
    /\ a.kind = b.kind
    /\ a.at = b.at
    /\ a.index = b.index

SourceLists ==
    { l \in SeqsUpTo(KeySources, MaxSources) :
         /\ Len(l) >= 1
         /\ \A i, j \in DOMAIN l : SameSource(l[i], l[j]) => i = j }

\* save_procedure over the records in order: a record whose
\* (entity, tupa_code) is already held by a row adds no row.
RECURSIVE SaveAll(_, _, _)
SaveAll(records, i, rows) ==
    IF i > Len(records) THEN rows
    ELSE LET rec    == records[i]
             exists == \E r \in DOMAIN rows :
                          /\ rows[r].entity_code = rec.entity_code
                          /\ rows[r].tupa_code = rec.tupa_code
         IN  SaveAll(records, i + 1, IF exists THEN rows ELSE Append(rows, rec))

\* run_full_process, phases 1-4: the lists of the extractors are
\* concatenated, nothing is removed.
MergeSources ==
    /\ key_pc = "idle"
    /\ \E sources \in SourceLists :
          /\ key_sources' = sources
          /\ key_records' = [ i \in DOMAIN sources |-> RecordOf(sources[i]) ]
    /\ key_pc' = "merged"
    /\ UNCHANGED key_rows
    /\ UNCHANGED <<early_vars, req_vars, seg_vars>>

\* save_procedures_batch without a failing record, then commit.
PersistMerged ==
    /\ key_pc = "merged"
    /\ key_rows' = SaveAll(key_records, 1, <<>>)
    /\ key_pc' = "committed"
    /\ UNCHANGED <<key_sources, key_records>>
    /\ UNCHANGED <<early_vars, req_vars, seg_vars>>

NextRunOnEmptyStore ==
    /\ key_pc = "committed"
    /\ key_pc' = "idle"
    /\ key_sources' = <<>>
    /\ key_records' = <<>>
    /\ key_rows' = <<>>
    /\ UNCHANGED <<early_vars, req_vars, seg_vars>>

KeysIdle ==
    /\ key_pc = "idle"
    /\ key_sources = <<>>
    /\ key_records = <<>>
    /\ key_rows = <<>>

NextKeys ==
    \/ MergeSources
    \/ PersistMerged
    \/ NextRunOnEmptyStore

LateIdle == ReqIdle /\ SegIdle /\ KeysIdle

MoreIdle == CodesIdle /\ DifficultyIdle /\ WebIdle /\ DocsIdle /\ MainIdle /\ LateIdle

Init == InitBatch /\ InitRun /\ InitExtractIdle /\ MoreIdle

SpecBatch == Init /\ [][NextBatch]_vars

SpecRun == Init /\ [][NextRun]_vars

InitDocs == InitBatch /\ InitRun /\ InitExtract /\ MoreIdle

SpecExtract == InitDocs /\ [][NextExtract]_vars

InitSources ==
    /\ InitBatch /\ InitRun /\ InitExtractIdle
    /\ InitCodes /\ DifficultyIdle /\ WebIdle /\ DocsIdle /\ MainIdle /\ LateIdle

SpecCodes == InitSources /\ [][NextCodes]_vars

InitAssessed ==
    /\ InitBatch /\ InitRun /\ InitExtractIdle
    /\ CodesIdle /\ InitDifficulty /\ WebIdle /\ DocsIdle /\ MainIdle /\ LateIdle

SpecDifficulty == InitAssessed /\ [][NextDifficulty]_vars

SpecWeb == Init /\ [][NextWeb]_vars

SpecDocs == Init /\ [][NextDocs]_vars

InitItems ==
    /\ InitBatch /\ InitRun /\ InitExtractIdle
    /\ CodesIdle /\ DifficultyIdle /\ WebIdle /\ DocsIdle /\ MainIdle
    /\ InitRequirements /\ SegIdle /\ KeysIdle

SpecRequirements == InitItems /\ [][NextRequirements]_vars

SpecSegments == Init /\ [][NextSegments]_vars

SpecKeys == Init /\ [][NextKeys]_vars

-----------------------------------------------------------------------------
(* Claims about the persistence layer, checked under SpecBatch *)

\* The entity code a committed procedure row belongs to.
EntityCodeOfRow(i) == db_entities[db_procedures[i].entity_id].code

SameNaturalKey(r1, r2) ==
    r1.entity_code = r2.entity_code /\ r1.tupa_code = r2.tupa_code

\* C1: after any sequence of save_procedures_batch calls the persisted store
\* never holds two procedure rows with the same (entity, tupa_code), and a
\* record whose pair is already stored or was added earlier in the same
\* batch causes no insert.
C1_NoDuplicateNaturalKey ==
    /\ \A i, j \in DOMAIN db_procedures :
          (i # j) =>
             ~(/\ EntityCodeOfRow(i) = EntityCodeOfRow(j)
               /\ db_procedures[i].tupa_code = db_procedures[j].tupa_code)
    /\ batch_hist.last.existed => ~batch_hist.last.inserted

\* A batch that holds the same pair twice was saved, then saved again, and
\* the store holds one row for it.
C1_Witness ==
    /\ batch_pc = "returned"
    /\ batch_hist.rerun
    /\ batch_hist.faults = 0
    /\ batch_hist.last.existed
    /\ Len(procedures_data) = 2
    /\ SameNaturalKey(procedures_data[1], procedures_data[2])
    /\ Len(db_procedures) = 1

\* C2: a second run over the same sources returns saved = 0 and
\* skipped = the first run's saved, with the row count unchanged; a record
\* whose natural key already exists is counted in skipped, not in saved and
\* not in errors.
C2_SecondRunSkipsAll ==
    /\ (/\ batch_pc = "returned"
        /\ batch_hist.rerun
        /\ batch_hist.faults = 0
        /\ batch_hist.prev.faults = 0)
       => /\ stats.saved = 0
          /\ stats.skipped = batch_hist.prev.saved
          /\ Len(db_procedures) = batch_hist.prev.rows
    /\ (batch_hist.last.existed /\ batch_hist.last.fault = "none")
       => batch_hist.last.counter = "skipped"

\* C3: an exception raised while one record is processed (entity resolution
\* or procedure lookup/insert) does not abort the batch: the record is
\* counted in errors and every later record is still processed.
C3_RecordFaultCountedAsError ==
    /\ batch_hist.last.fault # "none" => batch_hist.last.counter = "errors"
    /\ batch_pc = "returned" => idx = Len(procedures_data) + 1

IsPrefix(s, t) == Len(s) <= Len(t) /\ SubSeq(t, 1, Len(s)) = s

\* C4: the batch commits exactly once, after the last record; when the
\* commit raises, the whole batch is rolled back (no procedure row and no
\* lazily created entity row of the batch stays persisted) and the exception
\* reaches the caller; per-record skips and errors never cause a rollback.
C4_CommitOnceOrRollback ==
    /\ batch_pc = "loop" =>
          /\ batch_hist.commits = 0
          /\ batch_hist.rollbacks = 0
          /\ db_procedures = batch_hist.db0_procedures
          /\ db_entities = batch_hist.db0_entities
    /\ batch_pc = "returned" =>
          /\ batch_hist.commits = 1
          /\ batch_hist.rollbacks = 0
          /\ idx = Len(procedures_data) + 1
          /\ IsPrefix(batch_hist.db0_procedures, db_procedures)
          /\ IsPrefix(batch_hist.db0_entities, db_entities)
    /\ batch_pc = "raised" =>
          /\ batch_hist.commits = 0
          /\ batch_hist.rollbacks <= 1
          /\ db_procedures = batch_hist.db0_procedures
          /\ db_entities = batch_hist.db0_entities
          /\ sess_procedures = <<>>
          /\ sess_entities = <<>>

\* The commit of a batch that had added a row and counted a record error
\* raised, and the batch was rolled back.
C4_Witness ==
    /\ batch_pc = "raised"
    /\ batch_hist.rollbacks = 1
    /\ batch_hist.db0_procedures = <<>>
    /\ stats.saved >= 1
    /\ stats.errors >= 1

\* C20: when save_procedure finds a stored row with the record's
\* (tupa_code, entity_id), it returns that row and leaves every field of it,
\* and every other stored row, unchanged, whatever the field values of the
\* incoming record are.
C20_ExistingRowReturnedUnchanged ==
    (batch_pc = "loop" /\ batch_hist.last.returned = "existing") =>
       LET rec == procedures_data[idx - 1]
           row == batch_hist.last.row
       IN  /\ db_procedures \o sess_procedures = batch_hist.last.before
           /\ \E i \in DOMAIN batch_hist.last.before : batch_hist.last.before[i] = row
           /\ row.tupa_code = rec.tupa_code
           /\ EntityView[row.entity_id].code = rec.entity_code
           /\ ~batch_hist.last.inserted

\* A record whose name differs from the name of the stored row with its
\* natural key was given to save_procedure, which returned the stored row.
C20_Witness ==
    /\ batch_pc = "loop"
    /\ batch_hist.last.returned = "existing"
    /\ batch_hist.last.row.name # procedures_data[idx - 1].name
    /\ Len(batch_hist.last.before) >= 2

\* C21: after any sequence of batch saves at most one Entity row exists
\* per entity code: an Entity is inserted only when no row with that code
\* is visible in the session, later records of the batch with that code
\* resolve to the same row, the new Entity is durable only once the batch
\* commits, and no Entity is ever deleted.
C21_OneEntityPerCode ==
    LET entities == db_entities \o sess_entities IN
    /\ \A i, j \in DOMAIN entities : entities[i].code = entities[j].code => i = j
    /\ batch_pc = "loop" => db_entities = batch_hist.db0_entities
    /\ IsPrefix(batch_hist.db0_entities, db_entities)
    /\ (batch_pc = "loop" /\ idx > 1 /\ batch_hist.last.counter # "errors") =>
          \E e \in DOMAIN entities : entities[e].code = procedures_data[idx - 1].entity_code
    /\ \A p \in DOMAIN db_procedures : db_procedures[p].entity_id \in DOMAIN db_entities

\* A committed batch of two records of one entity with different codes:
\* one Entity row, two Procedure rows.
C21_Witness ==
    /\ batch_pc = "returned"
    /\ Len(procedures_data) = 2
    /\ procedures_data[1].entity_code = procedures_data[2].entity_code
    /\ procedures_data[1].tupa_code # procedures_data[2].tupa_code
    /\ Len(db_entities) = 1
    /\ Len(db_procedures) = 2

\* C28: whenever save_procedures_batch returns normally, total equals the
\* number of input records and saved + skipped + errors = total: each input
\* record increments exactly one of the three counters, exactly once.
C28_CountersSumToTotal ==
    /\ batch_pc \in { "loop", "returned" } =>
          /\ stats.total = Len(procedures_data)
          /\ stats.saved + stats.skipped + stats.errors = idx - 1
    /\ batch_pc = "returned" =>
          stats.saved + stats.skipped + stats.errors = stats.total

\* A batch of two records returned with one record saved and one counted
\* in skipped or errors.
C28_Witness ==
    /\ batch_pc = "returned"
    /\ stats.total = 2
    /\ stats.saved = 1
    /\ stats.skipped + stats.errors = 1
    /\ batch_hist.faults = 1

-----------------------------------------------------------------------------
(* Claims about the orchestrator, checked under SpecRun *)

PhaseOrder ==
    << "scraping_basic", "scraping_specialized", "scraping_pdf", "merging",
       "persisting", "exporting", "reporting", "done" >>

Rank(phase) == CHOOSE i \in DOMAIN PhaseOrder : PhaseOrder[i] = phase

Entered(phase) == \E i \in DOMAIN run_hist.trace : run_hist.trace[i] = phase

\* C5: in every run the phases occur in the order basic scraping,
\* specialized scraping, PDF processing, merging, persisting (only when
\* save_to_db), exporting (only when export_files), reporting, done; one
\* phase at a time; persisting is never entered after exporting.
C5_PhaseOrder ==
    LET t == run_hist.trace IN
    /\ \A i, j \in DOMAIN t : i < j => Rank(t[i]) < Rank(t[j])
    /\ \A i \in DOMAIN t :
          Rank(t[i]) <= Rank("merging") => Rank(t[i]) = i
    /\ Entered("persisting") => run_args.save_to_db
    /\ Entered("exporting") => run_args.export_files
    /\ (run_pc = "done" /\ all_procedures # <<>>) =>
          /\ run_args.save_to_db => Entered("persisting")
          /\ run_args.export_files => Entered("exporting")
          /\ Entered("reporting")
    /\ run_pc \in { PhaseOrder[i] : i \in DOMAIN PhaseOrder } => run_pc = t[Len(t)]

\* A run with save_to_db and export_files went through all eight phases.
C5_Witness ==
    /\ run_pc = "done"
    /\ run_hist.trace = PhaseOrder

\* C6: when a later state fails after extraction has completed (the persist
\* phase cannot open the database, or the batch raises), the merged records
\* are still exported and the final report is still generated.
C6_PersistFailureStillExports ==
    (run_pc = "failed" /\ run_hist.failed_in = "persisting") =>
        /\ run_args.export_files => run_hist.export_called
        /\ run_hist.report_called

\* C7: when one extractor phase fails (the specialized scraper cannot set
\* up its session, the PDF processor raises while scanning its directory),
\* the records of the other extractor phases still reach the merge step.
C7_ExtractorFailureKeepsOthers ==
    (run_pc = "failed"
       /\ run_hist.failed_in \in {"scraping_specialized", "scraping_pdf"}) =>
        /\ run_hist.merged
        /\ IsPrefix(basic_procedures, all_procedures)

\* C8: the merged list is basic ++ specialized ++ pdf, each extractor's order
\* and duplicates kept, and procedures_scraped is the sum of the lengths.
C8_MergeIsConcatenation ==
    run_hist.merged =>
        /\ Len(all_procedures) =
              Len(basic_procedures) + Len(specialized_procedures) + Len(pdf_procedures)
        /\ \A i \in DOMAIN basic_procedures : all_procedures[i] = basic_procedures[i]
        /\ \A i \in DOMAIN specialized_procedures :
              all_procedures[Len(basic_procedures) + i] = specialized_procedures[i]
        /\ \A i \in DOMAIN pdf_procedures :
              all_procedures[Len(basic_procedures) + Len(specialized_procedures) + i]
                 = pdf_procedures[i]
        /\ results.procedures_scraped = Len(all_procedures)

\* A merge of three non-empty outputs that repeat a record inside one
\* extractor's output and across extractors.
C8_Witness ==
    /\ run_hist.merged
    /\ Len(basic_procedures) > Len(CuratedProcedures)
    /\ Len(specialized_procedures) = 2
    /\ specialized_procedures[1] = specialized_procedures[2]
    /\ pdf_procedures # <<>>
    /\ pdf_procedures[1] = specialized_procedures[1]


-----------------------------------------------------------------------------
(* Claims about the extractors (SpecExtract) *)

\* C9: every ProcedureData produced by any extractor (the basic scraper and
\* its curated records, each specialized extractor, every PDF and
\* spreadsheet path) has cost >= 0 and is_free exactly when cost is 0.
C9_CostNonNegativeAndIsFree ==
    \A i \in DOMAIN produced :
        /\ produced[i].cost >= 0
        /\ produced[i].is_free = (produced[i].cost = 0)

\* An extractor that parses the cost from the text has found a positive
\* amount and produced a record that is not free.
C9_Witness ==
    \E i \in DOMAIN produced :
        /\ produced[i].extractor \in { "basic", "sunat", "gob", "pdf_section", "tasa_row" }
        /\ produced[i].cost > 0
        /\ ~ produced[i].is_free

NoRuleMatched(rec) == rec.classifier # "" /\ ~ rec.rule_matched

\* C10, as stated: the category of every produced record is set, and it is
\* "general" whenever no classification rule matches the record's text.
C10_GeneralWhenNoRuleMatches ==
    \A i \in DOMAIN produced :
        /\ produced[i].category # ""
        /\ NoRuleMatched(produced[i]) => produced[i].category = "general"

\* C10, amended: the category of every produced record is set; when no
\* classification rule matches, it is "tributario" for a record classified
\* by the SUNAT classifier and "general" for a record classified by any of
\* the other classifiers.
C10_CategorySetWithClassifierDefault ==
    \A i \in DOMAIN produced :
        /\ produced[i].category # ""
        /\ NoRuleMatched(produced[i]) =>
               produced[i].category =
                   IF produced[i].classifier = "sunat" THEN "tributario" ELSE "general"

\* The SUNAT extractor has produced a record on whose text no rule of its
\* classifier matched.
C10_Witness ==
    \E i \in DOMAIN produced :
        /\ produced[i].classifier = "sunat"
        /\ NoRuleMatched(produced[i])
        /\ produced[i].category = "tributario"

\* The texts "Tasa: S/. 150.00" and "0.5 UIT".
TasaText == << Word("Tasa:"), Word("S/."), Num(150, <<0, 0>>) >>

HalfUitText == << Num(0, <<5>>), Word("UIT") >>

\* C12: page text containing "Tasa: S/. 150.00" and no UIT expression gives
\* cost 150.00 in PEN; page text containing "0.5 UIT" and no currency amount
\* gives cost 0.5 * 5150 / 100 = 25.75 (costs in thousandths of a sol).
C12_CostParsing ==
    \A i \in DOMAIN produced :
        produced[i].extractor \in { "sunat", "pdf_section" } =>
            /\ Contains(doc.text, TasaText) /\ ~ HasWord(doc.text, "UIT") =>
                   produced[i].cost = 150000 /\ produced[i].currency = "PEN"
            /\ Contains(doc.text, HalfUitText) /\ ~ HasWord(doc.text, "S/.") =>
                   produced[i].cost = 25750

-----------------------------------------------------------------------------
(* Claims about synthetic codes (SpecCodes) *)

\* C11: for the same input URL, file path or table-row name, the synthetic
\* tupa_code derived from it is the same in every process that runs the
\* pipeline.
C11_SameCodeInEveryProcess ==
    \A i, j \in DOMAIN codes : codes[i] = codes[j]

-----------------------------------------------------------------------------
(* Claims about the difficulty functions (SpecDifficulty) *)

\* The point score of the rule: one point for more requirements than
\* threshold_a, one for a cost above threshold_b, one for a complexity word.
RuleLevel(requirements, cost, threshold_a, threshold_b, complex_words) ==
    Level(Point(Len(requirements) > threshold_a)
          + Point(cost > Soles(threshold_b))
          + Point(AnyComplexWord(requirements, complex_words)))

\* C13: every difficulty function of the web extractors is the point score
\* with thresholds 5 and 100 (6 and 1000 in the SUNAT variant) and a point
\* for a complexity keyword, 0-1 easy, 2 medium, 3 hard; so 8 requirements
\* give easy at cost 0 and medium at cost 150 under the generic thresholds.
C13_DifficultyIsPointScore ==
    difficulty.function # "none" =>
        /\ difficulty.level =
               IF difficulty.function = "sunat"
               THEN RuleLevel(assessed.requirements, assessed.cost, 6, 1000,
                              {"declaracion", "aforo", "valorizacion", "arancel"})
               ELSE RuleLevel(assessed.requirements, assessed.cost, 5, 100,
                              {"certificado", "autenticado", "notarizado", "apostillado"})
        /\ ( /\ difficulty.function # "sunat"
             /\ Len(assessed.requirements) = 8
             /\ \A i \in DOMAIN assessed.requirements : assessed.requirements[i] = "copia" )
           => /\ assessed.cost = 0 => difficulty.level = "easy"
              /\ assessed.cost = Soles(150) => difficulty.level = "medium"

-----------------------------------------------------------------------------
(* Claims about the URL loops of the web extractors (SpecWeb) *)

\* The extractor registered for the domain a host belongs to; the generic
\* extractor for a host of no registered domain.
RegisteredFor(host) ==
    CASE host = "www.sunat.gob.pe"       -> "sunat"
      [] host = "www.gob.pe"             -> "gob"
      [] host = "www.reniec.gob.pe"      -> "reniec"
      [] host = "tupadigital.mtc.gob.pe" -> "mtc"
      [] OTHER                           -> "generic"

\* C14: for every fetched URL whose host belongs to a registered domain the
\* extractor invoked is the one registered for that domain, and the generic
\* extractor is invoked exactly when the host matches no registered domain.
C14_DispatchByRegisteredDomain ==
    \A i \in DOMAIN web_calls :
        (web_calls[i].scraper = "specialized" /\ web_calls[i].response = "200")
            => web_calls[i].extractor = RegisteredFor(web_calls[i].host)

\* C15: a URL whose response is not 200, whose request times out or raises,
\* or whose page has no identifiable title yields no record, and the loop
\* goes on to the next URL.
C15_NoRecordOnFailure ==
    \A i \in DOMAIN web_calls :
        /\ (web_calls[i].response # "200" \/ ~ web_calls[i].has_title)
               => web_calls[i].returned = "None"
        /\ web_pc \in { "specialized", "basic" } => url_i = Len(web_calls) + 1

\* C16: between any two HTTP requests a web extractor sends to the same
\* host there is a sleep; this includes the request of the search page and
\* the first procedure page requested after it.
C16_DelayBetweenRequestsToAHost ==
    \A i, j \in DOMAIN web_log :
        ( /\ i < j
          /\ web_log[i].event = "request"
          /\ web_log[j].event = "request"
          /\ web_log[i].host = web_log[j].host )
            => \E k \in (i + 1)..(j - 1) : web_log[k].event = "sleep"

-----------------------------------------------------------------------------
(* Claims about the document extractor (SpecDocs) *)

\* The records of the file at a position that are in all_procedures.
KeptOf(position) ==
    { k \in DOMAIN doc_procedures : doc_procedures[k].file = position }

\* Every file is processed and the error of one file costs no record of
\* another: the loop ends only after the last file, and all_procedures
\* holds what each processed file yielded.
ErrorsArePerFile ==
    /\ docs_pc = "returned" => Len(docs_hist) = Len(doc_files)
    /\ \A i \in DOMAIN docs_hist : Cardinality(KeptOf(i)) = docs_hist[i].yielded

NothingToExtract(file) == file.content \in { "no_text", "no_sections" }

\* C17, as stated: an error in one file is caught for that file only, the
\* remaining files are processed, earlier records are kept, and a file with
\* no extractable text or no sections yields an empty list.
C17_PerFileErrorsAndEmptyYield ==
    /\ ErrorsArePerFile
    /\ \A i \in DOMAIN docs_hist :
           NothingToExtract(docs_hist[i].file) => docs_hist[i].yielded = 0

\* C17, amended: as stated, but the empty yield holds for the files whose
\* records are extracted from their content; the registro path and the
\* spreadsheet paths return their fixed records whatever the file holds
\* (centros only for a non-empty sheet).
C17_PerFileErrorsAndEmptyYieldOfExtractedFiles ==
    /\ ErrorsArePerFile
    /\ \A i \in DOMAIN docs_hist :
           ( /\ NothingToExtract(docs_hist[i].file)
             /\ docs_hist[i].file.processor \in { "tupa", "tasas", "manual", "generic_pdf" } )
               => docs_hist[i].yielded = 0

\* The loop has returned after a file that yielded records, followed by a
\* file whose read raised and that yielded nothing; the records of the
\* first file are kept.
C17_Witness ==
    /\ docs_pc = "returned"
    /\ \E i, j \in DOMAIN docs_hist :
           /\ i < j
           /\ docs_hist[i].yielded > 0
           /\ docs_hist[j].file.raises
           /\ docs_hist[j].file.processor = "tupa"
           /\ docs_hist[j].yielded = 0
           /\ Cardinality(KeptOf(i)) = docs_hist[i].yielded

\* C18: when a run is interrupted by the user in any phase, no new fetch
\* or file open is started afterwards, the cleanup closes the open sessions
\* and connections, and the records accumulated before the interruption are
\* still exported.
C18_InterruptClosesAndExports ==
    run_pc = "interrupted" =>
       /\ ~interrupt.session_left_open
       /\ db_conn # "open"
       /\ (run_args.export_files /\ interrupt.accumulated > 0) => files # {}

\* C19: the command-line entry points exit with code 0 when the run
\* succeeds and with a non-zero code on every unrecoverable orchestration
\* failure: an exception escaping run_full_process, or the database being
\* unreachable in validate.
C19_ExitCodeTellsSuccess ==
    /\ (exit.entry \in { "cli_scrape", "main_full" } /\ exit.outcome = "done") => exit.code = 0
    /\ (exit.entry \in { "cli_scrape", "main_full" } /\ exit.outcome = "failed") => exit.code # 0
    /\ (exit.entry \in { "cli_validate", "main_validate" }) =>
          (exit.code = 0 <=> exit.db = "reachable")

\* C22: the SUNAT web extractor and the PDF section parser apply one cost
\* rule: for a text with both an explicit currency amount and a UIT
\* expression both give the explicit amount, and a captured UIT value v
\* gives v * 5150 when v >= 1 and v * 5150 / 100 when v < 1.
C22_OneCostRule ==
    \A i \in DOMAIN produced :
        produced[i].extractor \in { "sunat", "pdf_section" } =>
            LET m == { j \in DOMAIN doc.text : SolesAt(doc.text, j) }
                u == { j \in DOMAIN doc.text : UitAt(doc.text, j) }
            IN  /\ (m # {} /\ u # {}) =>
                      produced[i].cost = SolesCost(Captured(doc.text[First(m) + 1]))
                /\ (m = {} /\ u # {}) =>
                      produced[i].cost = UitCost(CapturedBefore(doc.text[First(u)]))

\* The position at which a link first appears in the search page.
FirstInPage(link) == First({ p \in DOMAIN page_links : page_links[p] = link })

\* C23: within an extractor the records appear in source-iteration order:
\* for the URL-driven extractors the k-th record comes from an earlier
\* position of the discovered (search page) or loaded (links file) URL list
\* than the (k+1)-th, so that two runs over the same source give the same
\* order.
C23_RecordsInSourceOrder ==
    /\ web_pc \in { "specialized", "basic" } => url_i = Len(web_calls) + 1
    /\ \A i, j \in DOMAIN web_calls :
          ( /\ i < j
            /\ web_calls[i].scraper = "basic"
            /\ web_calls[j].scraper = "basic" )
              => FirstInPage(web_calls[i].host) < FirstInPage(web_calls[j].host)

\* C26: tasas path: the header row never yields a record; a data row
\* yields a record only if its name has at least 5 characters and its cost
\* cell is numeric; rows with a shorter name or a non-numeric cost are
\* skipped.
C26_TasaRowNeedsNameAndNumericCost ==
    \A i \in DOMAIN produced :
        produced[i].extractor = "tasa_row" =>
            /\ doc.words # {}
            /\ Len(doc.text) = 1
            /\ IsNum(doc.text[1])

\* C27: the web extractors have no side effect but network I/O and the
\* returned records: the basic web extraction writes no file, so with
\* export_files false no JSON or CSV catalog file is written during the run.
C27_NoFileWithoutExport ==
    (run_pc \in ActivePhases \cup { "done", "failed", "interrupted" }
        /\ ~ run_args.export_files)
      => files = {}

-----------------------------------------------------------------------------
(* Claims about the requirements lists (SpecRequirements) *)

\* C24: every record produced by any extractor carries at most 10
\* requirements (at most 8, without duplicates, from the SUNAT extractor),
\* whatever the number of list items in the source page or document.
C24_RequirementsCapped ==
    LET requirements == req_record.requirements IN
    /\ Len(requirements) <= 10
    /\ req_record.extractor = "sunat" =>
          /\ Len(requirements) <= 8
          /\ \A i, j \in DOMAIN requirements : requirements[i] = requirements[j] => i = j

-----------------------------------------------------------------------------
(* Claims about the full-text segmentation (SpecSegments) *)

RECURSIVE Flatten(_)
Flatten(sections) ==
    IF sections = <<>> THEN <<>> ELSE Head(sections) \o Flatten(Tail(sections))

\* The positions of the non-empty lines, in order.
NonEmptyLines(text) == Ascending({ i \in DOMAIN text : text[i].chars > 0 })

\* C25: scanning the non-empty lines in order, a marker line starts a new
\* section and every other line is appended to the current one; only the
\* first 20 sections are parsed, so at most 20 records are returned, each
\* from a distinct section and in section order; a text without non-empty
\* line returns an empty list.
C25_SegmentationAndCap ==
    seg_out.called =>
       LET sections   == seg_out.sections
           procedures == seg_out.procedures
       IN  /\ Flatten(sections) = NonEmptyLines(seg_text)
           /\ \A k \in DOMAIN sections :
                 /\ sections[k] # <<>>
                 /\ k > 1 => seg_text[sections[k][1]].marker
                 /\ \A n \in 2..Len(sections[k]) : ~ seg_text[sections[k][n]].marker
           /\ Len(procedures) <= 20
           /\ \A p \in DOMAIN procedures :
                 /\ procedures[p].index <= 20
                 /\ procedures[p].index \in DOMAIN sections
                 /\ procedures[p].section = sections[procedures[p].index]
           /\ \A p, q \in DOMAIN procedures :
                 p < q => procedures[p].index < procedures[q].index
           /\ NonEmptyLines(seg_text) = <<>> => procedures = <<>>

\* A text of more than 20 sections with a name was segmented: 20 records.
C25_Witness ==
    /\ seg_out.called
    /\ Len(seg_out.sections) > 20
    /\ \A k \in DOMAIN seg_out.sections : HasName(seg_text, seg_out.sections[k])
    /\ Len(seg_out.procedures) = 20
    /\ \E k \in DOMAIN seg_out.sections : Len(seg_out.sections[k]) = 2


-----------------------------------------------------------------------------
(* Claims about the natural keys, checked under SpecKeys *)

\* C29: records extracted from different sources never share a natural key
\* (entity_code, tupa_code), so on an empty store a committed batch holds
\* exactly one row per merged record; records without an extracted code and
\* the PDF-<index> codes of two files do not collide.
C29_DifferentSourcesDifferentKeys ==
    /\ \A i, j \in DOMAIN key_records :
          (/\ key_records[i].entity_code = key_records[j].entity_code
           /\ key_records[i].tupa_code = key_records[j].tupa_code) => i = j
    /\ key_pc = "committed" => Len(key_rows) = Len(key_records)


-----------------------------------------------------------------------------
(* Claims about the ways run_full_process ends, checked under SpecRun *)

RunExits == { "done", "failed", "interrupted" }

\* C30: run_full_process releases the database connection, when one was
\* opened, and records the duration and end time on every exit path: the
\* normal completion, the early return on an empty merged list (which
\* skips persisting, exporting and reporting), and an exception raised in
\* any phase, which increments errors by one and is re-raised.
C30_EveryExitClosesAndTimes ==
    [][ (run_pc \in ActivePhases /\ run_pc' \in RunExits) =>
           /\ results'.duration_set
           /\ db_conn' # "open"
           /\ db_conn = "open" => db_conn' = "closed"
           /\ run_pc' = "failed" =>
                 /\ results'.errors = results.errors + 1
                 /\ run_hist'.failed_in = run_pc
           /\ run_pc' = "done" =>
                 /\ results'.errors = results.errors
                 /\ run_pc \in { "merging", "reporting" }
                 /\ run_pc = "merging" =>
                       /\ all_procedures' = <<>>
                       /\ files' = files ]_vars

\* The batch raised after the connection was opened: the run failed in the
\* persisting phase with the connection closed and the duration stored.
C30_Witness ==
    /\ run_pc = "failed"
    /\ run_hist.failed_in = "persisting"
    /\ db_conn = "closed"
    /\ results.duration_set
    /\ results.errors = 1

=============================================================================
